---- MODULE Spec2Model ----
(***************************************************************************)
(* Model of the WebView2 process watcher of src-tauri/src/performance.rs:  *)
(* the start guard, the WMI (event-driven) watcher thread and its          *)
(* handshake, the polling fallback thread, the elevation of child          *)
(* processes, the ancestry walk and the elevation telemetry.               *)
(***************************************************************************)
EXTENDS Integers, Sequences, FiniteSets, TLC

(***************************************************************************)
(* Bounds of the model.                                                    *)
(***************************************************************************)
\* pids 1..MaxPid are the processes other than the host
MaxPid == 2
\* number of threads of the host that call apply_system_optimizations
NCallers == 2
\* number of process creations the environment performs
MaxSpawns == 2
\* number of creation events the notification iterator holds undelivered
MaxQueue == 2
\* pids 1..MaxWalkPid of the process tables the ancestry walk is run on
MaxWalkPid == 3

\* watcher cycles between two garbage-collection sweeps of the tracking set
GcCycles == 12

\* number of threads that call get_gpu_stats
NGpuCallers == 2
\* number of get_gpu_stats calls made in all
MaxGpuCalls == 2
\* number of GPU engines a read of the counter returns values for
MaxEngines == 2

\* number of threads that call PerformanceMonitor::get_stats
NPmCallers == 2
\* number of concurrent callers of the updater commands
NUpdCallers == 2
\* number of checks that find an update
MaxChecks == 2
\* number of get_stats calls made in all
MaxStatsCalls == 3
\* last reading of the monotonic clock, in half seconds
MaxClock == 3

Pids == 1..MaxPid
PmCallers == 1..NPmCallers
UpdCallers == 1..NUpdCallers
GpuCallers == 1..NGpuCallers
Callers == 1..NCallers
\* std::process::id() of the host
our_pid == MaxPid + 1

VARIABLES
    \* ---- statics of performance.rs
    WEBVIEW_OPTIMIZER_RUNNING,  \* AtomicBool
    WMI_WATCHER_ACTIVE,         \* AtomicBool
    PROCESSES_ELEVATED,         \* AtomicU32
    \* ---- threads
    caller_pc,      \* per caller: "idle", "wait" (blocked in rx.recv_timeout), "returned"
    wmi_pc,         \* WMI thread: "none", "init", "failed", "loop", "ended"
    poll_pc,        \* polling thread: "none", "grace", "loop"
    chan,           \* the mpsc channel (tx, rx): "none", "empty", "true", "false", "closed", "dropped"
    wmi_pids,       \* optimized_pids of start_wmi_process_watcher (HashSet<u32>)
    poll_pids,      \* optimized_pids of the polling thread (HashSet<u32>)
    events,         \* ProcessStartTrace items the notification iterator has not yielded yet
    telemetry,      \* <<the ElevationTelemetry the last step returned>>, if it returned one
    \* ---- environment
    procs,          \* the operating system's process table, per pid of Pids
    spawned,        \* number of process creations so far
    \* ---- history
    wmi_threads,    \* number of WMI watcher threads spawned
    poll_threads,   \* number of polling threads spawned
    guard_passes,   \* number of start_webview_optimizer calls that passed the guard
    elevations,     \* per pid: number of successful SetPriorityClass calls by the watcher
    stop_requested, \* a stop was requested (stop_optimizations of the specification)
    stale_cycles,   \* consecutive polling iterations that ended with an exited pid tracked
    wmi_step,       \* <<what the last step did>>, if it was an iteration of the WMI event loop
    wmi_returned,   \* <<the value start_wmi_process_watcher returned>>, once it has
    elevated_now,   \* the pids whose present process the watcher has elevated
    \* ---- the ancestry walk run on its own (is_descendant_of / is_descendant_of_pid)
    d_ok,           \* CreateToolhelp32Snapshot succeeded
    d_snapshot,     \* the snapshot: a sequence of PROCESSENTRY32
    d_pid,          \* argument pid
    d_ancestor,     \* argument ancestor_pid
    d_current,      \* current_pid
    d_visited,      \* visited
    d_trace,        \* the pids inserted into visited, in order
    d_pc,           \* "start", "loop", "done"
    d_result,       \* the value returned
    \* ---- the GPU monitor
    GPU_MONITOR,    \* the OnceLock<Mutex<GpuMonitor>>: None or <<the GpuMonitor>>
    gpu_pc,         \* per caller of get_gpu_stats: "idle", "locking" (get_gpu_monitor returned)
    gpu_stats,      \* <<the GpuStats the last step returned>>, if it returned one
    gpu_calls,      \* number of get_gpu_stats calls begun
    \* ---- history of the GPU monitor
    gpu_init,       \* the GpuMonitor::initialize runs: what each attempted and met
    gpu_collected,  \* number of PdhCollectQueryData calls on the query that succeeded
    gpu_read_unprimed, \* values were read back when no earlier collection had succeeded
    gpu_sample,     \* <<what the last get_usage met>>: the values returned, and whether read
    gpu_failed,     \* a get_usage on the initialized monitor has failed
    \* ---- the host process (main)
    host_pc,        \* "start", "running", "fatal" (a panic was raised), "exited", "aborted"
    timer_held,     \* timeBeginPeriod(1) requests not yet matched by timeEndPeriod(1)
    cleanup_registered, \* atexit holds the cleanup of register_timer_cleanup
    \* ---- the PerformanceMonitor
    pm_clock,       \* the monotonic clock Instant::now() reads, in half seconds
    pm_start,       \* <<start_time>> of the monitor, once PerformanceMonitor::new() ran
    pm_pc,          \* per caller of get_stats: "idle", "called", "locked" (holds `system`)
    pm_calls,       \* number of get_stats calls begun
    pm_returned,    \* the uptime_secs returned, in the order the calls returned
    \* ---- one iteration of the WMI event loop, statement by statement
    wmi_lock,       \* the Mutex of optimized_pids: "free" or "held"
    l_pc,           \* "next" (at iter.next()), "test", "elevate", "insert"
    l_event,        \* <<the event being handled>>
    \* ---- one scan of elevate_webview2_processes, entry by entry
    s_pc,           \* "idle", "loop" (an entry is current), "done"
    s_snapshot,     \* the entries of the snapshot of the scan
    s_cursor,       \* the position of the snapshot of the scan: index of its current entry
    s_visited,      \* the indices of the entries the scan has processed, in order
    s_new_pids,     \* new_pids
    s_checks,       \* number of is_descendant_of calls made during the scan
    \* ---- handles
    handle_calls,   \* the handle operations of the last call of a function of the watcher
    \* ---- the updater commands of commands.rs
    pending,        \* PendingUpdate: the Mutex<Option<Update>>, None or <<the Update>>
    upd_pc,         \* per caller: "idle" or "downloading"
    upd_held,       \* per caller: the Option<Update> taken from the slot, while downloading
    upd_returned,   \* <<what the last step of a command returned>>, if it returned
    upd_checks,     \* number of checks that found an update: they number the Updates
    downloads,      \* the Updates whose download_and_install was started, in order
    \* ---- the window commands of commands.rs
    CURRENT_WINDOW_MODE,    \* AtomicU8
    window,         \* the main window: its fullscreen, decorations and maximized flags
    win_returned    \* <<what the last window command returned>>

wvars == <<WEBVIEW_OPTIMIZER_RUNNING, WMI_WATCHER_ACTIVE, PROCESSES_ELEVATED,
           caller_pc, wmi_pc, poll_pc, chan, wmi_pids, poll_pids, events, telemetry,
           procs, spawned, wmi_threads, poll_threads, guard_passes, elevations,
           stop_requested, stale_cycles, wmi_step, wmi_returned, elevated_now>>
dvars == <<d_ok, d_snapshot, d_pid, d_ancestor, d_current, d_visited, d_trace, d_pc,
           d_result>>
gvars == <<GPU_MONITOR, gpu_pc, gpu_stats, gpu_calls, gpu_init, gpu_collected,
           gpu_read_unprimed, gpu_sample, gpu_failed>>
hvars == <<host_pc, timer_held, cleanup_registered>>
uvars == <<pm_clock, pm_start, pm_pc, pm_calls, pm_returned>>
lvars == <<wmi_lock, l_pc, l_event>>
svars == <<s_pc, s_snapshot, s_cursor, s_visited, s_new_pids, s_checks>>
evars == <<handle_calls>>
cvars == <<pending, upd_pc, upd_held, upd_returned, upd_checks, downloads,
           CURRENT_WINDOW_MODE, window, win_returned>>
xvars == <<hvars, uvars, lvars, svars, evars, cvars>>
vars == <<wvars, dvars, gvars, xvars>>

(***************************************************************************)
(* Process Table Snapshot and Ancestry Resolver.                           *)
(***************************************************************************)
\* Option<u32>: Some(x) is <<x>>, None is <<>>
Some(x) == <<x>>
None == <<>>

Min(S) == CHOOSE x \in S : \A y \in S : x <= y

\* the inner loop of the walk: Process32First / Process32Next until the entry of
\* current_pid is found; the parent of the first entry with that pid
found_parent(snapshot, current_pid) ==
    LET hits == {i \in DOMAIN snapshot : snapshot[i].th32ProcessID = current_pid}
    IN  IF hits = {} THEN None ELSE Some(snapshot[Min(hits)].th32ParentProcessID)

\* the guard at the top of the loop: `visited.contains(&current_pid) || current_pid == 0`
\* (walk_guard_unvisited: the guard without the test of visited)
walk_guard_unvisited(current_pid, visited) == current_pid = 0
walk_guard(current_pid, visited) == current_pid \in visited \/ current_pid = 0

\* `Some(parent) if parent == ancestor_pid => break true`
\* (match_any_parent: the arm without its `if`)
match_any_parent(parent, ancestor_pid) == TRUE
match_ancestor(parent, ancestor_pid) == parent = ancestor_pid

\* one iteration of `let result = loop { ... }`: whether the loop breaks, the value it
\* breaks with, whether visited.insert(current_pid) ran, and current_pid and visited
\* after the iteration
walk_step(snapshot, current_pid, ancestor_pid, visited) ==
    IF walk_guard(current_pid, visited)
    THEN [brk |-> TRUE, result |-> FALSE, inserted |-> FALSE,
          current_pid |-> current_pid, visited |-> visited]
    ELSE LET v == visited \cup {current_pid}
             fp == IF Len(snapshot) = 0 THEN None   \* Process32First fails: break false
                   ELSE found_parent(snapshot, current_pid)
         IN  IF fp = None
             THEN [brk |-> TRUE, result |-> FALSE, inserted |-> TRUE,
                   current_pid |-> current_pid, visited |-> v]
             ELSE IF match_ancestor(fp[1], ancestor_pid)
             THEN [brk |-> TRUE, result |-> TRUE, inserted |-> TRUE,
                   current_pid |-> current_pid, visited |-> v]
             ELSE [brk |-> FALSE, result |-> FALSE, inserted |-> TRUE,
                   current_pid |-> fp[1], visited |-> v]

RECURSIVE walk(_, _, _, _)
walk(snapshot, current_pid, ancestor_pid, visited) ==
    LET s == walk_step(snapshot, current_pid, ancestor_pid, visited)
    IN  IF s.brk THEN s.result
        ELSE walk(snapshot, s.current_pid, ancestor_pid, s.visited)

\* is_descendant_of(_snapshot, pid, ancestor_pid): takes its own snapshot; `ok` is whether
\* CreateToolhelp32Snapshot succeeded and `snapshot` what it returned
is_descendant_of(ok, snapshot, pid, ancestor_pid) ==
    IF ~ok THEN FALSE ELSE walk(snapshot, pid, ancestor_pid, {})

\* is_descendant_of_pid(pid, ancestor_pid): the same walk
is_descendant_of_pid(ok, snapshot, pid, ancestor_pid) ==
    IF ~ok THEN FALSE ELSE walk(snapshot, pid, ancestor_pid, {})

(***************************************************************************)
(* The operating system's process table.                                   *)
(***************************************************************************)
\* executable names; the host's own is HostName
HostName == "pacdeluxe.exe"
Names == {"MsEdgeWebView2.exe", "notepad.exe"}
\* what an elevation attempt on a pid meets: "ok": OpenProcess and SetPriorityClass
\* succeed, "noopen": OpenProcess(PROCESS_SET_INFORMATION) fails, "noset": the handle is
\* opened and SetPriorityClass fails
Access == {"ok", "noopen", "noset"}

NoProc == [live |-> FALSE, parent |-> 0, name |-> ""]

\* str::to_lowercase on the names of the model
to_lowercase(name) ==
    CASE name = "MsEdgeWebView2.exe" -> "msedgewebview2.exe"
      [] OTHER -> name

\* `.contains("msedgewebview2")` on a lowercased name of the model
contains_msedgewebview2(lower) == lower \in {"msedgewebview2.exe"}

\* `process_name.to_lowercase().contains("msedgewebview2")`
is_webview(name) == contains_msedgewebview2(to_lowercase(name))

\* CreateToolhelp32Snapshot(TH32CS_SNAPPROCESS, 0) when it succeeds: one PROCESSENTRY32
\* per live process, the host included
CreateToolhelp32Snapshot ==
    LET entry(p) ==
            IF p = our_pid
            THEN [th32ProcessID |-> our_pid, th32ParentProcessID |-> 0,
                  szExeFile |-> HostName, live |-> TRUE]
            ELSE [th32ProcessID |-> p, th32ParentProcessID |-> procs[p].parent,
                  szExeFile |-> procs[p].name, live |-> procs[p].live]
        all == [p \in 1..our_pid |-> entry(p)]
    IN  SelectSeq(all, LAMBDA e : e.live)

\* the outcomes an elevation attempt on pid can have: a pid of no process cannot be opened
Outcomes(pid) == IF procs[pid].live THEN Access ELSE {"noopen"}

\* OpenProcess(PROCESS_SET_INFORMATION, false, pid).is_ok()
OpenProcess_ok(outcome) == outcome # "noopen"
\* SetPriorityClass(handle, ABOVE_NORMAL_PRIORITY_CLASS).is_ok() on an opened handle
SetPriorityClass_ok(outcome) == outcome = "ok"

(***************************************************************************)
(* Elevation.                                                              *)
(***************************************************************************)
\* PROCESSES_ELEVATED.fetch_add(1, Ordering::Relaxed): the new value of the counter.
\* The AtomicU32 wraps at 2^32, which no run of the model comes near: every increment
\* follows an insert of a new pid into a set of at most MaxPid pids.
\* (fetch_sub_1: a decrement in its place)
fetch_sub_1(x) == x - 1
fetch_add_1(x) == x + 1

\* elevate_single_process(pid): the value returned, for the outcome the attempt meets.
\* boost_ok: SetProcessPriorityBoost(handle, true) succeeds; its failure is only logged.
\* (elevate_single_process_boost: the boost counted into the result)
elevate_single_process_boost(outcome, boost_ok) ==
    OpenProcess_ok(outcome) /\ SetPriorityClass_ok(outcome) /\ boost_ok
elevate_single_process(outcome, boost_ok) ==
    IF OpenProcess_ok(outcome)
    THEN SetPriorityClass_ok(outcome)   \* `success`
    ELSE FALSE

\* the effect of elevate_single_process(pid) on PROCESSES_ELEVATED
elevate_single_process_counter(outcome, counter) ==
    IF OpenProcess_ok(outcome) /\ SetPriorityClass_ok(outcome)
    THEN fetch_add_1(counter) ELSE counter

\* `!already_optimized.contains(&pid)` of elevate_webview2_processes
\* (poll_never_new: the test always failing)
poll_never_new(already_optimized, pid) == FALSE
poll_not_optimized(already_optimized, pid) == pid \notin already_optimized

\* the entries of a scan on which elevate_webview2_processes attempts an elevation:
\* is_webview, a child or a descendant of the host, not already optimized. inner_ok is
\* the set of pids for which the private snapshot of is_descendant_of could be created.
poll_attempts(already_optimized, snapshot, inner_ok) ==
    {snapshot[i].th32ProcessID : i \in {j \in DOMAIN snapshot :
        LET pid == snapshot[j].th32ProcessID
            parent_pid == snapshot[j].th32ParentProcessID
        IN  /\ is_webview(snapshot[j].szExeFile)
            /\ (parent_pid = our_pid
                \/ is_descendant_of(pid \in inner_ok, snapshot, pid, our_pid))
            /\ poll_not_optimized(already_optimized, pid)}}

\* new_pids of elevate_webview2_processes, as a set: the attempted pids whose handle was
\* opened and whose priority class was set
new_pids(already_optimized, snapshot, inner_ok, outcome) ==
    {pid \in poll_attempts(already_optimized, snapshot, inner_ok) :
        OpenProcess_ok(outcome[pid]) /\ SetPriorityClass_ok(outcome[pid])}

\* elevate_webview2_processes(already_optimized) -> Option<Vec<u32>>
elevate_webview2_processes(already_optimized, ok, snapshot, inner_ok, outcome) ==
    IF ~ok THEN None
    ELSE LET n == new_pids(already_optimized, snapshot, inner_ok, outcome)
         IN  IF n = {} THEN None ELSE Some(n)

\* (telemetry_always_active: is_active reported as a constant)
telemetry_always_active ==
    [processes_elevated |-> PROCESSES_ELEVATED,
     mode |-> IF WMI_WATCHER_ACTIVE THEN "wmi" ELSE "polling",
     is_active |-> TRUE,
     wmi_available |-> WMI_WATCHER_ACTIVE]

\* get_elevation_telemetry()
get_elevation_telemetry ==
    [processes_elevated |-> PROCESSES_ELEVATED,
     mode |-> IF WMI_WATCHER_ACTIVE THEN "wmi" ELSE "polling",
     is_active |-> WEBVIEW_OPTIMIZER_RUNNING,
     wmi_available |-> WMI_WATCHER_ACTIVE]

(***************************************************************************)
(* The watcher: initial state.                                             *)
(***************************************************************************)
InitWatcher ==
    /\ WEBVIEW_OPTIMIZER_RUNNING = FALSE
    /\ WMI_WATCHER_ACTIVE = FALSE
    /\ PROCESSES_ELEVATED = 0
    /\ caller_pc = [c \in Callers |-> "idle"]
    /\ wmi_pc = "none"
    /\ poll_pc = "none"
    /\ chan = "none"
    /\ wmi_pids = {}
    /\ poll_pids = {}
    /\ events = <<>>
    /\ telemetry = <<>>
    /\ procs = [p \in Pids |-> NoProc]
    /\ spawned = 0
    /\ wmi_threads = 0
    /\ poll_threads = 0
    /\ guard_passes = 0
    /\ elevations = [p \in Pids |-> 0]
    /\ stop_requested = FALSE
    /\ stale_cycles = 0
    /\ wmi_step = <<>>
    /\ wmi_returned = <<>>
    /\ elevated_now = {}

\* `static GPU_MONITOR: OnceLock<..> = OnceLock::new()`: empty, and no call made
InitGpu ==
    /\ GPU_MONITOR = <<>>
    /\ gpu_pc = [c \in GpuCallers |-> "idle"]
    /\ gpu_stats = <<>>
    /\ gpu_calls = 0
    /\ gpu_init = <<>>
    /\ gpu_collected = 0
    /\ gpu_read_unprimed = FALSE
    /\ gpu_sample = <<>>
    /\ gpu_failed = FALSE

\* main has not yet called apply_system_optimizations
InitHost ==
    /\ host_pc = "start"
    /\ timer_held = 0
    /\ cleanup_registered = FALSE

\* no PerformanceMonitor yet
InitPm ==
    /\ pm_clock = 0
    /\ pm_start = <<>>
    /\ pm_pc = [c \in PmCallers |-> "idle"]
    /\ pm_calls = 0
    /\ pm_returned = <<>>

\* the event loop is not inside an iteration, and no scan is under way
InitSteps ==
    /\ wmi_lock = "free"
    /\ l_pc = "next"
    /\ l_event = <<>>
    /\ s_pc = "idle"
    /\ s_snapshot = <<>>
    /\ s_cursor = 0
    /\ s_visited = <<>>
    /\ s_new_pids = {}
    /\ s_checks = 0

\* no function of the watcher has been called
InitHandles ==
    /\ handle_calls = <<>>

\* PendingUpdate(Mutex::new(None)), CURRENT_WINDOW_MODE = AtomicU8::new(0), and the
\* main window as it is created: decorated, neither fullscreen nor maximized
InitCommands ==
    /\ pending = <<>>
    /\ upd_pc = [c \in UpdCallers |-> "idle"]
    /\ upd_held = [c \in UpdCallers |-> None]
    /\ upd_returned = <<>>
    /\ upd_checks = 0
    /\ downloads = <<>>
    /\ CURRENT_WINDOW_MODE = 0
    /\ window = [fullscreen |-> FALSE, decorations |-> TRUE, maximized |-> FALSE]
    /\ win_returned = <<>>

\* the walk is not running
InitWalkIdle ==
    /\ d_ok = FALSE
    /\ d_snapshot = <<>>
    /\ d_pid = 0
    /\ d_ancestor = 0
    /\ d_current = 0
    /\ d_visited = {}
    /\ d_trace = <<>>
    /\ d_pc = "off"
    /\ d_result = FALSE

Init == InitWatcher /\ InitWalkIdle /\ InitGpu /\ InitHost /\ InitPm /\ InitSteps /\ InitHandles
    /\ InitCommands

(***************************************************************************)
(* The environment: processes are created and exit.                        *)
(***************************************************************************)
\* the Win32_ProcessStartTrace item of a creation
ProcessStartTrace(p, parent, name) ==
    [process_id |-> p, process_name |-> name, parent_process_id |-> parent]

Spawn(p, parent, name) ==
    /\ ~procs[p].live
    /\ spawned < MaxSpawns
    /\ wmi_pc = "loop" => Len(events) < MaxQueue
    /\ procs' = [procs EXCEPT ![p] =
                    [live |-> TRUE, parent |-> parent, name |-> name]]
    /\ spawned' = spawned + 1
    \* the subscription of the WMI thread delivers the creation while it is active
    /\ events' = IF wmi_pc = "loop"
                 THEN Append(events, ProcessStartTrace(p, parent, name))
                 ELSE events
    /\ telemetry' = <<>>
    /\ wmi_step' = <<>>
    /\ UNCHANGED <<wmi_returned, elevated_now, WEBVIEW_OPTIMIZER_RUNNING, WMI_WATCHER_ACTIVE, PROCESSES_ELEVATED,
                   caller_pc, wmi_pc, poll_pc, chan, wmi_pids, poll_pids, wmi_threads, poll_threads, guard_passes, elevations, stop_requested,
                   stale_cycles, dvars, gvars, xvars>>

Exit(p) ==
    /\ procs[p].live
    /\ procs' = [procs EXCEPT ![p] = NoProc]
    /\ elevated_now' = elevated_now \ {p}
    /\ telemetry' = <<>>
    /\ wmi_step' = <<>>
    /\ UNCHANGED <<wmi_returned, WEBVIEW_OPTIMIZER_RUNNING, WMI_WATCHER_ACTIVE, PROCESSES_ELEVATED,
                   caller_pc, wmi_pc, poll_pc, chan, wmi_pids, poll_pids, events,
                   spawned, wmi_threads, poll_threads, guard_passes,
                   elevations, stop_requested, stale_cycles, dvars, gvars, xvars>>

(***************************************************************************)
(* start_webview_optimizer, called by apply_system_optimizations.          *)
(***************************************************************************)
\* `WEBVIEW_OPTIMIZER_RUNNING.swap(true, Ordering::SeqCst)`: the value stored
\* (swap_keeps: a load in place of the swap)
swap_keeps(old) == old
swap_true(old) == TRUE

\* start_polling_optimizer(): spawns the polling thread, which first sleeps 2 s
start_polling_optimizer ==
    /\ poll_pc' = "grace"
    /\ poll_threads' = poll_threads + 1

\* a call that finds the flag set returns at once
StartAgain(c) ==
    /\ caller_pc[c] = "idle"
    /\ WEBVIEW_OPTIMIZER_RUNNING
    /\ WEBVIEW_OPTIMIZER_RUNNING' = swap_true(WEBVIEW_OPTIMIZER_RUNNING)
    /\ caller_pc' = [caller_pc EXCEPT ![c] = "returned"]
    /\ telemetry' = <<>>
    /\ wmi_step' = <<>>
    /\ UNCHANGED <<wmi_returned, elevated_now, WMI_WATCHER_ACTIVE, PROCESSES_ELEVATED, wmi_pc, poll_pc, chan,
                   wmi_pids, poll_pids, events, procs, spawned, wmi_threads,
                   poll_threads, guard_passes, elevations, stop_requested, stale_cycles,
                   dvars, gvars, xvars>>

\* a call that finds the flag clear sets it, and start_wmi_process_watcher creates the
\* tracking set and the channel, spawns the WMI thread and blocks in rx.recv_timeout
StartFirst(c) ==
    /\ caller_pc[c] = "idle"
    /\ ~WEBVIEW_OPTIMIZER_RUNNING
    /\ WEBVIEW_OPTIMIZER_RUNNING' = swap_true(WEBVIEW_OPTIMIZER_RUNNING)
    /\ guard_passes' = guard_passes + 1
    /\ wmi_pids' = {}
    /\ chan' = "empty"
    /\ wmi_pc' = "init"
    /\ wmi_threads' = wmi_threads + 1
    /\ caller_pc' = [caller_pc EXCEPT ![c] = "wait"]
    /\ telemetry' = <<>>
    /\ wmi_step' = <<>>
    /\ UNCHANGED <<wmi_returned, elevated_now, WMI_WATCHER_ACTIVE, PROCESSES_ELEVATED, poll_pc, poll_pids, events,
                   procs, spawned, poll_threads, elevations, stop_requested,
                   stale_cycles, dvars, gvars, xvars>>

\* (recv_true_then_polling: the polling thread started after a reported success too)
recv_true_then_polling(c) ==
    /\ caller_pc[c] = "wait"
    /\ chan = "true"
    /\ chan' = "dropped"
    /\ wmi_returned' = <<TRUE>>
    /\ start_polling_optimizer
    /\ caller_pc' = [caller_pc EXCEPT ![c] = "returned"]
    /\ telemetry' = <<>>
    /\ wmi_step' = <<>>
    /\ UNCHANGED <<elevated_now, WEBVIEW_OPTIMIZER_RUNNING, WMI_WATCHER_ACTIVE,
                   PROCESSES_ELEVATED, wmi_pc, wmi_pids, poll_pids, events, procs,
                   spawned, wmi_threads, guard_passes, elevations, stop_requested,
                   stale_cycles, dvars, gvars, xvars>>

\* rx.recv_timeout returns Ok(true): start_webview_optimizer returns
RecvTrue(c) ==
    /\ caller_pc[c] = "wait"
    /\ chan = "true"
    /\ chan' = "dropped"
    /\ wmi_returned' = <<TRUE>>
    /\ caller_pc' = [caller_pc EXCEPT ![c] = "returned"]
    /\ telemetry' = <<>>
    /\ wmi_step' = <<>>
    /\ UNCHANGED <<elevated_now, WEBVIEW_OPTIMIZER_RUNNING, WMI_WATCHER_ACTIVE, PROCESSES_ELEVATED,
                   wmi_pc, poll_pc, wmi_pids, poll_pids, events, procs,
                   spawned, wmi_threads, poll_threads, guard_passes, elevations,
                   stop_requested, stale_cycles, dvars, gvars, xvars>>

\* rx.recv_timeout returns Ok(false): fall back to polling
RecvFalse(c) ==
    /\ caller_pc[c] = "wait"
    /\ chan = "false"
    /\ chan' = "dropped"
    /\ wmi_returned' = <<FALSE>>
    /\ start_polling_optimizer
    /\ caller_pc' = [caller_pc EXCEPT ![c] = "returned"]
    /\ telemetry' = <<>>
    /\ wmi_step' = <<>>
    /\ UNCHANGED <<elevated_now, WEBVIEW_OPTIMIZER_RUNNING, WMI_WATCHER_ACTIVE, PROCESSES_ELEVATED,
                   wmi_pc, wmi_pids, poll_pids, events, procs, spawned,
                   wmi_threads, guard_passes, elevations, stop_requested, stale_cycles,
                   dvars, gvars, xvars>>

\* (recv_without_timeout: rx.recv() on a channel whose sender is still held)
recv_without_timeout(c) == FALSE
\* rx.recv_timeout returns Err(_), after 5 s with nothing sent or at once when the
\* sender was dropped with nothing sent: fall back to polling
RecvTimeout(c) ==
    /\ caller_pc[c] = "wait"
    /\ chan \in {"empty", "closed"}
    /\ chan' = "dropped"
    /\ wmi_returned' = <<FALSE>>
    /\ start_polling_optimizer
    /\ caller_pc' = [caller_pc EXCEPT ![c] = "returned"]
    /\ telemetry' = <<>>
    /\ wmi_step' = <<>>
    /\ UNCHANGED <<elevated_now, WEBVIEW_OPTIMIZER_RUNNING, WMI_WATCHER_ACTIVE, PROCESSES_ELEVATED,
                   wmi_pc, wmi_pids, poll_pids, events, procs, spawned,
                   wmi_threads, guard_passes, elevations, stop_requested, stale_cycles,
                   dvars, gvars, xvars>>

(***************************************************************************)
(* The WMI thread spawned by start_wmi_process_watcher.                    *)
(***************************************************************************)
\* `let _ = tx.send(v)`: the message is queued unless the receiver was dropped
send(v) == IF chan = "empty" THEN v ELSE chan

\* COMLibrary::new, WMIConnection::new or notification() fails: send false and return
WmiInitFail ==
    /\ wmi_pc = "init"
    /\ wmi_pc' = "failed"
    /\ chan' = send("false")
    /\ telemetry' = <<>>
    /\ wmi_step' = <<>>
    /\ UNCHANGED <<wmi_returned, elevated_now, WEBVIEW_OPTIMIZER_RUNNING, WMI_WATCHER_ACTIVE, PROCESSES_ELEVATED,
                   caller_pc, poll_pc, wmi_pids, poll_pids, events, procs,
                   spawned, wmi_threads, poll_threads, guard_passes, elevations,
                   stop_requested, stale_cycles, dvars, gvars, xvars>>

\* the thread ends without sending (a panic inside COMLibrary::new, WMIConnection::new
\* or notification()): tx is dropped, and a receiver still waiting gets Err(Disconnected)
WmiThreadPanic ==
    /\ wmi_pc = "init"
    /\ wmi_pc' = "failed"
    /\ chan' = IF chan = "empty" THEN "closed" ELSE chan
    /\ telemetry' = <<>>
    /\ wmi_step' = <<>>
    /\ UNCHANGED <<wmi_returned, elevated_now, WEBVIEW_OPTIMIZER_RUNNING, WMI_WATCHER_ACTIVE, PROCESSES_ELEVATED,
                   caller_pc, poll_pc, wmi_pids, poll_pids, events, procs,
                   spawned, wmi_threads, poll_threads, guard_passes, elevations,
                   stop_requested, stale_cycles, dvars, gvars, xvars>>

\* the subscription succeeds: store the flag, send true and enter the event loop
WmiInitOk ==
    /\ wmi_pc = "init"
    /\ wmi_pc' = "loop"
    /\ WMI_WATCHER_ACTIVE' = TRUE
    /\ chan' = send("true")
    /\ telemetry' = <<>>
    /\ wmi_step' = <<>>
    /\ UNCHANGED <<wmi_returned, elevated_now, WEBVIEW_OPTIMIZER_RUNNING, PROCESSES_ELEVATED, caller_pc, poll_pc,
                   wmi_pids, poll_pids, events, procs, spawned, wmi_threads,
                   poll_threads, guard_passes, elevations, stop_requested, stale_cycles,
                   dvars, gvars, xvars>>

\* `!pids.contains(&event.process_id)` of the event loop
\* (wmi_never_new: the test always failing)
wmi_never_new(pids, pid) == FALSE
wmi_not_optimized(pids, pid) == pid \notin pids

\* iter.next() yields Some(Ok(event)). ok: whether the snapshot of is_descendant_of_pid
\* could be created; outcome: what the elevation attempt meets
WmiEventP(ok, outcome, boost_ok) ==
    /\ wmi_pc = "loop"
    /\ events # <<>>
    /\ LET event == Head(events)
           pid == event.process_id
           is_our_child ==
               \/ event.parent_process_id = our_pid
               \/ is_descendant_of_pid(ok, CreateToolhelp32Snapshot, pid, our_pid)
           attempt == /\ is_webview(event.process_name)
                      /\ is_our_child
                      /\ wmi_not_optimized(wmi_pids, pid)
           success == attempt /\ elevate_single_process(outcome, boost_ok)
       IN  /\ outcome \in Outcomes(pid)
           /\ events' = Tail(events)
           /\ PROCESSES_ELEVATED' =
                  IF attempt THEN elevate_single_process_counter(outcome, PROCESSES_ELEVATED)
                  ELSE PROCESSES_ELEVATED
           /\ wmi_pids' = IF success THEN wmi_pids \cup {pid} ELSE wmi_pids
           /\ elevations' = IF success THEN [elevations EXCEPT ![pid] = @ + 1]
                            ELSE elevations
           /\ elevated_now' = IF success THEN elevated_now \cup {pid} ELSE elevated_now
           \* the call of elevate_single_process, when there was one
           /\ wmi_step' \in {<<>>,
                             IF attempt
                             THEN <<[kind |-> "elevate", pid |-> pid, outcome |-> outcome,
                                     boost_ok |-> boost_ok, result |-> success]>>
                             ELSE <<[kind |-> "skip", pid |-> pid]>>}
    /\ telemetry' = <<>>
    /\ UNCHANGED <<wmi_returned, WEBVIEW_OPTIMIZER_RUNNING, WMI_WATCHER_ACTIVE, caller_pc, wmi_pc,
                   poll_pc, chan, poll_pids, procs, spawned, wmi_threads,
                   poll_threads, guard_passes, stop_requested, stale_cycles, dvars, gvars, xvars>>

WmiEvent ==
    \E ok, boost_ok \in BOOLEAN, outcome \in Access :
        WmiEventP(ok, outcome, boost_ok) /\ wmi_step' = <<>>

\* the same iteration, with what it did recorded
WmiEventTraced ==
    \E ok, boost_ok \in BOOLEAN, outcome \in Access :
        WmiEventP(ok, outcome, boost_ok) /\ wmi_step' # <<>>

\* (wmi_error_breaks: the error arm leaving the loop as the None arm does)
wmi_error_breaks ==
    /\ wmi_pc = "loop"
    /\ wmi_pc' = "ended"
    /\ events' = <<>>
    /\ WMI_WATCHER_ACTIVE' = FALSE
    /\ telemetry' = <<>>
    /\ wmi_step' \in {<<>>, <<[kind |-> "error"]>>}
    /\ UNCHANGED <<wmi_returned, elevated_now, WEBVIEW_OPTIMIZER_RUNNING,
                   PROCESSES_ELEVATED, caller_pc, poll_pc, chan, wmi_pids, poll_pids,
                   procs, spawned, wmi_threads, poll_threads, guard_passes, elevations,
                   stop_requested, stale_cycles, dvars, gvars, xvars>>

\* iter.next() yields Some(Err(e)): logged, the loop goes on
WmiEventErrorP ==
    /\ wmi_pc = "loop"
    /\ telemetry' = <<>>
    /\ wmi_step' \in {<<>>, <<[kind |-> "error"]>>}
    /\ UNCHANGED <<wmi_returned, elevated_now, WEBVIEW_OPTIMIZER_RUNNING, WMI_WATCHER_ACTIVE, PROCESSES_ELEVATED,
                   caller_pc, wmi_pc, poll_pc, chan, wmi_pids, poll_pids, events, procs,
                   spawned, wmi_threads, poll_threads, guard_passes, elevations,
                   stop_requested, stale_cycles, dvars, gvars, xvars>>

WmiEventError == WmiEventErrorP /\ wmi_step' = <<>>

\* the same iteration, recorded
WmiEventErrorTraced == WmiEventErrorP /\ wmi_step' # <<>>

\* iter.next() yields None: the loop breaks and the flag is cleared
WmiStreamEnd ==
    /\ wmi_pc = "loop"
    /\ wmi_pc' = "ended"
    /\ events' = <<>>
    /\ WMI_WATCHER_ACTIVE' = FALSE
    /\ telemetry' = <<>>
    /\ wmi_step' = <<>>
    /\ UNCHANGED <<wmi_returned, elevated_now, WEBVIEW_OPTIMIZER_RUNNING, PROCESSES_ELEVATED, caller_pc, poll_pc,
                   chan, wmi_pids, poll_pids, procs, spawned, wmi_threads,
                   poll_threads, guard_passes, elevations, stop_requested, stale_cycles,
                   dvars, gvars, xvars>>

(***************************************************************************)
(* The polling thread spawned by start_polling_optimizer.                  *)
(***************************************************************************)
\* the initial sleep of 2 s is over; optimized_pids is created empty
PollGraceEnd ==
    /\ poll_pc = "grace"
    /\ poll_pc' = "loop"
    /\ poll_pids' = {}
    /\ telemetry' = <<>>
    /\ wmi_step' = <<>>
    /\ UNCHANGED <<wmi_returned, elevated_now, WEBVIEW_OPTIMIZER_RUNNING, WMI_WATCHER_ACTIVE, PROCESSES_ELEVATED,
                   caller_pc, wmi_pc, chan, wmi_pids, events, procs, spawned,
                   wmi_threads, poll_threads, guard_passes, elevations, stop_requested,
                   stale_cycles, dvars, gvars, xvars>>

\* OpenProcess with a query right succeeds on a tracked pid: its process has not exited
gc_openable(p) == procs[p].live

\* one iteration of the loop: elevate_webview2_processes, the inserts, the sleep of 5 s.
\* ok: whether the snapshot of the scan could be created; inner_ok: the pids for which
\* the snapshot of is_descendant_of could be; outcome: what each elevation attempt meets
PollScan(ok, inner_ok, outcome) ==
    /\ poll_pc = "loop"
    /\ telemetry' = <<>>
    /\ wmi_step' = <<>>
    /\ UNCHANGED <<wmi_returned, WEBVIEW_OPTIMIZER_RUNNING, WMI_WATCHER_ACTIVE, PROCESSES_ELEVATED,
                   caller_pc, wmi_pc, poll_pc, chan, wmi_pids, events, procs,
                   spawned, wmi_threads, poll_threads, guard_passes, stop_requested,
                   dvars, gvars, xvars>>
    /\ LET r == elevate_webview2_processes(poll_pids, ok, CreateToolhelp32Snapshot,
                                           inner_ok, outcome)
           ins == IF r = None THEN {} ELSE r[1]
       IN  /\ poll_pids' = poll_pids \cup ins
           /\ elevated_now' = elevated_now \cup ins
           /\ elevations' = [p \in Pids |->
                                IF p \in ins THEN elevations[p] + 1 ELSE elevations[p]]

\* the processes a scan can attempt to elevate: the live ones with a matching name
Candidates == {p \in Pids : procs[p].live /\ is_webview(procs[p].name)}

PollIteration ==
    \E ok \in BOOLEAN, inner_ok \in SUBSET Candidates, outcome \in [Pids -> Access] :
        /\ \A p \in Pids \ Candidates : outcome[p] = "noopen"
        /\ PollScan(ok, inner_ok, outcome)
        /\ UNCHANGED stale_cycles

\* the same iteration, counting the consecutive iterations that end with the pid of an
\* exited process in optimized_pids
PollIterationCounted ==
    \E ok \in BOOLEAN, inner_ok \in SUBSET Candidates, outcome \in [Pids -> Access] :
        /\ \A p \in Pids \ Candidates : outcome[p] = "noopen"
        /\ PollScan(ok, inner_ok, outcome)
        /\ stale_cycles' =
               IF \E p \in poll_pids' : ~gc_openable(p)
               THEN (IF stale_cycles < GcCycles THEN stale_cycles + 1 ELSE GcCycles)
               ELSE 0

(***************************************************************************)
(* Operations of the command layer.                                        *)
(***************************************************************************)
\* get_webview_telemetry -> get_elevation_telemetry()
GetElevationTelemetry ==
    /\ telemetry' = <<get_elevation_telemetry>>
    /\ wmi_step' = <<>>
    /\ UNCHANGED <<wmi_returned, elevated_now, WEBVIEW_OPTIMIZER_RUNNING, WMI_WATCHER_ACTIVE, PROCESSES_ELEVATED,
                   caller_pc, wmi_pc, poll_pc, chan, wmi_pids, poll_pids, events, procs,
                   spawned, wmi_threads, poll_threads, guard_passes, elevations,
                   stop_requested, stale_cycles, dvars, gvars, xvars>>

\* stop_optimizations() of the specification: a stop is requested. The source has no
\* stop flag: nothing reads the request.
StopOptimizations ==
    /\ ~stop_requested
    /\ stop_requested' = TRUE
    /\ telemetry' = <<>>
    /\ wmi_step' = <<>>
    /\ UNCHANGED <<wmi_returned, elevated_now, WEBVIEW_OPTIMIZER_RUNNING, WMI_WATCHER_ACTIVE, PROCESSES_ELEVATED,
                   caller_pc, wmi_pc, poll_pc, chan, wmi_pids, poll_pids, events,
                   procs, spawned, wmi_threads, poll_threads, guard_passes,
                   elevations, stale_cycles, dvars, gvars, xvars>>

NextCommon ==
    \/ \E p \in Pids, name \in Names :
         \E parent \in ({0, our_pid} \cup Pids) \ {p} : Spawn(p, parent, name)
    \/ \E p \in Pids : Exit(p)
    \/ \E c \in Callers : StartFirst(c)
    \/ \E c \in Callers : StartAgain(c)
    \/ \E c \in Callers : RecvTrue(c)
    \/ \E c \in Callers : RecvFalse(c)
    \/ \E c \in Callers : RecvTimeout(c)
    \/ WmiInitFail
    \/ WmiThreadPanic
    \/ WmiInitOk
    \/ WmiStreamEnd
    \/ PollGraceEnd

NextBase == NextCommon \/ WmiEvent \/ WmiEventError

\* the program as the source has it
Next == NextBase \/ PollIteration \/ GetElevationTelemetry

Spec == Init /\ [][Next]_vars

\* the program, with the iterations of the WMI event loop recorded
NextTraced ==
    NextCommon \/ WmiEventTraced \/ WmiEventErrorTraced \/ PollIteration
        \/ GetElevationTelemetry

SpecTraced == Init /\ [][NextTraced]_vars

\* the program, and stop requests
NextStop == NextBase \/ PollIteration \/ StopOptimizations

SpecStop == Init /\ [][NextStop]_vars

\* the program, with its polling iterations counted
NextGc == NextBase \/ PollIterationCounted

SpecGc == Init /\ [][NextGc]_vars

\* the step in which rx.recv_timeout returns to the caller c
Handshake(c) == RecvTrue(c) \/ RecvFalse(c) \/ RecvTimeout(c)

\* the program, with the scheduling the handshake relies on: rx.recv_timeout returns
\* within 5 s whatever the WMI thread does, so a waiting caller takes its step
SpecHandshake == Init /\ [][Next]_vars /\ \A c \in Callers : WF_vars(Handshake(c))

(***************************************************************************)
(* The Some(Ok(event)) arm of the event loop, statement by statement.      *)
(***************************************************************************)
\* the positions of the arm at which the MutexGuard `pids` is alive: it is bound by
\* `let mut pids = optimized_pids_clone.lock()..` before the test and dropped at the end
\* of the `if is_our_child` block, after the insert
\* (guard_live_test_only: a guard that is a temporary of the test)
guard_live_test_only(pc) == pc = "test"
guard_live(pc) == pc \in {"test", "elevate", "insert"}

\* the Mutex of optimized_pids when the arm moves to position pc
lock_at(pc) == IF guard_live(pc) THEN "held" ELSE "free"

\* iter.next() yields Some(Ok(event)); the name and the ancestry are tested and, for a
\* matching child or descendant of the host, the lock is taken.
\* ok: whether the snapshot of is_descendant_of_pid could be created
LkNext(ok) ==
    /\ wmi_pc = "loop"
    /\ l_pc = "next"
    /\ events # <<>>
    /\ LET event == Head(events)
           is_our_child ==
               \/ event.parent_process_id = our_pid
               \/ is_descendant_of_pid(ok, CreateToolhelp32Snapshot, event.process_id,
                                       our_pid)
           locks == is_webview(event.process_name) /\ is_our_child
       IN  /\ events' = Tail(events)
           /\ l_pc' = IF locks THEN "test" ELSE "next"
           /\ l_event' = IF locks THEN <<event>> ELSE <<>>
    /\ wmi_lock' = lock_at(l_pc')
    /\ telemetry' = <<>>
    /\ UNCHANGED <<WEBVIEW_OPTIMIZER_RUNNING, WMI_WATCHER_ACTIVE, PROCESSES_ELEVATED,
                   caller_pc, wmi_pc, poll_pc, chan, wmi_pids, poll_pids, procs, spawned,
                   wmi_threads, poll_threads, guard_passes, elevations, stop_requested,
                   stale_cycles, wmi_step, wmi_returned, elevated_now,
                   dvars, gvars, hvars, uvars, svars, evars, cvars>>

\* `if !pids.contains(&event.process_id)`
LkTest ==
    /\ l_pc = "test"
    /\ l_pc' = IF wmi_not_optimized(wmi_pids, l_event[1].process_id)
               THEN "elevate" ELSE "next"
    /\ l_event' = IF l_pc' = "next" THEN <<>> ELSE l_event
    /\ wmi_lock' = lock_at(l_pc')
    /\ telemetry' = <<>>
    /\ UNCHANGED <<WEBVIEW_OPTIMIZER_RUNNING, WMI_WATCHER_ACTIVE, PROCESSES_ELEVATED,
                   caller_pc, wmi_pc, poll_pc, chan, wmi_pids, poll_pids, events, procs,
                   spawned, wmi_threads, poll_threads, guard_passes, elevations,
                   stop_requested, stale_cycles, wmi_step, wmi_returned, elevated_now,
                   dvars, gvars, hvars, uvars, svars, evars, cvars>>

\* `if elevate_single_process(event.process_id)`
LkElevate(outcome, boost_ok) ==
    /\ l_pc = "elevate"
    /\ LET pid == l_event[1].process_id
           success == elevate_single_process(outcome, boost_ok)
       IN  /\ outcome \in Outcomes(pid)
           /\ PROCESSES_ELEVATED' =
                  elevate_single_process_counter(outcome, PROCESSES_ELEVATED)
           /\ elevations' = IF success THEN [elevations EXCEPT ![pid] = @ + 1]
                            ELSE elevations
           /\ elevated_now' = IF success THEN elevated_now \cup {pid} ELSE elevated_now
           /\ l_pc' = IF success THEN "insert" ELSE "next"
    /\ l_event' = IF l_pc' = "next" THEN <<>> ELSE l_event
    /\ wmi_lock' = lock_at(l_pc')
    /\ telemetry' = <<>>
    /\ UNCHANGED <<WEBVIEW_OPTIMIZER_RUNNING, WMI_WATCHER_ACTIVE, caller_pc, wmi_pc,
                   poll_pc, chan, wmi_pids, poll_pids, events, procs, spawned,
                   wmi_threads, poll_threads, guard_passes, stop_requested,
                   stale_cycles, wmi_step, wmi_returned,
                   dvars, gvars, hvars, uvars, svars, evars, cvars>>

\* `pids.insert(event.process_id)`, and the end of the block
LkInsert ==
    /\ l_pc = "insert"
    /\ wmi_pids' = wmi_pids \cup {l_event[1].process_id}
    /\ l_pc' = "next"
    /\ l_event' = <<>>
    /\ wmi_lock' = lock_at(l_pc')
    /\ telemetry' = <<>>
    /\ UNCHANGED <<WEBVIEW_OPTIMIZER_RUNNING, WMI_WATCHER_ACTIVE, PROCESSES_ELEVATED,
                   caller_pc, wmi_pc, poll_pc, chan, poll_pids, events, procs, spawned,
                   wmi_threads, poll_threads, guard_passes, elevations, stop_requested,
                   stale_cycles, wmi_step, wmi_returned, elevated_now,
                   dvars, gvars, hvars, uvars, svars, evars, cvars>>

\* the other threads and the processes run freely; the event thread itself leaves the
\* loop only at iter.next(), between two iterations
NextLock ==
    \/ (l_pc = "next" \/ wmi_pc' = wmi_pc) /\ NextCommon
    \/ \E ok \in BOOLEAN : LkNext(ok)
    \/ LkTest
    \/ \E outcome \in Access, boost_ok \in BOOLEAN : LkElevate(outcome, boost_ok)
    \/ LkInsert
    \/ PollIteration

\* the program, the event arm taken statement by statement
SpecLock == Init /\ [][NextLock]_vars

(***************************************************************************)
(* One scan of elevate_webview2_processes, entry by entry.  A snapshot     *)
(* handle carries a position: Process32First sets it to the first entry,   *)
(* Process32Next moves it on and fails on the last.                        *)
(***************************************************************************)
\* the handle is_descendant_of passes to Process32First and Process32Next: the one it
\* created, never its parameter
\* (walk_handle_shared: the walk on the handle of the caller)
walk_handle_shared(_snapshot, local_snapshot) == _snapshot
walk_handle(_snapshot, local_snapshot) == local_snapshot

\* the position of the walked snapshot when the walk returns: each iteration that passes
\* the guard restarts at the first entry and stops on the entry of current_pid, or on the
\* last entry when there is none
RECURSIVE walk_cursor(_, _, _, _, _)
walk_cursor(snapshot, current_pid, ancestor_pid, visited, cursor) ==
    LET s == walk_step(snapshot, current_pid, ancestor_pid, visited)
        hits == {i \in DOMAIN snapshot : snapshot[i].th32ProcessID = current_pid}
        c == IF ~s.inserted THEN cursor
             ELSE IF hits = {} THEN Len(snapshot) ELSE Min(hits)
    IN  IF s.brk THEN c
        ELSE walk_cursor(snapshot, s.current_pid, ancestor_pid, s.visited, c)

\* one call is_descendant_of(snapshot, pid, ancestor_pid) made by the scan while its own
\* snapshot stands at cursor: the value returned and the position of the snapshot of the
\* scan after the call.  ok: whether the snapshot of the call could be created
descendant_call(ok, pid, ancestor_pid, cursor) ==
    LET shared == walk_handle("snapshot", "local_snapshot") = "snapshot"
        walked == IF shared THEN s_snapshot ELSE CreateToolhelp32Snapshot
    IN  [result |-> is_descendant_of(ok, walked, pid, ancestor_pid),
         cursor |-> IF ok /\ shared
                    THEN walk_cursor(walked, pid, ancestor_pid, {}, cursor)
                    ELSE cursor]

\* CreateToolhelp32Snapshot(..).ok()? and Process32First
ScanStart(ok) ==
    /\ poll_pc = "loop"
    /\ s_pc = "idle"
    /\ s_snapshot' = IF ok THEN CreateToolhelp32Snapshot ELSE <<>>
    /\ s_pc' = IF ok /\ Len(s_snapshot') > 0 THEN "loop" ELSE "done"
    /\ s_cursor' = IF s_pc' = "loop" THEN 1 ELSE 0
    /\ s_visited' = <<>>
    /\ s_new_pids' = {}
    /\ s_checks' = 0
    /\ telemetry' = <<>>
    /\ UNCHANGED <<WEBVIEW_OPTIMIZER_RUNNING, WMI_WATCHER_ACTIVE, PROCESSES_ELEVATED,
                   caller_pc, wmi_pc, poll_pc, chan, wmi_pids, poll_pids, events, procs,
                   spawned, wmi_threads, poll_threads, guard_passes, elevations,
                   stop_requested, stale_cycles, wmi_step, wmi_returned, elevated_now,
                   dvars, gvars, hvars, uvars, lvars, evars, cvars>>

\* the body of the loop on the current entry, and Process32Next.
\* ok1, ok2: whether the snapshots of the two calls of is_descendant_of could be created
\* (the call of the debug block, the call of the condition); outcome: what the elevation
\* attempt meets
ScanEntry(ok1, ok2, outcome) ==
    /\ s_pc = "loop"
    /\ LET entry == s_snapshot[s_cursor]
           pid == entry.th32ProcessID
           parent_pid == entry.th32ParentProcessID
           webview == is_webview(entry.szExeFile)
           calls == webview /\ parent_pid # our_pid
           d1 == IF calls THEN descendant_call(ok1, pid, our_pid, s_cursor)
                 ELSE [result |-> FALSE, cursor |-> s_cursor]
           d2 == IF calls THEN descendant_call(ok2, pid, our_pid, d1.cursor)
                 ELSE [result |-> FALSE, cursor |-> s_cursor]
           attempt == /\ webview
                      /\ (parent_pid = our_pid \/ d2.result)
                      /\ poll_not_optimized(poll_pids, pid)
           success == attempt /\ OpenProcess_ok(outcome) /\ SetPriorityClass_ok(outcome)
       IN  /\ IF attempt THEN outcome \in Outcomes(pid) ELSE outcome = "noopen"
           /\ calls \/ (ok1 /\ ok2)
           /\ s_checks' = IF calls THEN s_checks + 2 ELSE s_checks
           /\ s_new_pids' = IF success THEN s_new_pids \cup {pid} ELSE s_new_pids
           /\ elevated_now' = IF success THEN elevated_now \cup {pid} ELSE elevated_now
           /\ elevations' = IF success THEN [elevations EXCEPT ![pid] = @ + 1]
                            ELSE elevations
           /\ s_visited' = Append(s_visited, s_cursor)
           /\ s_pc' = IF d2.cursor < Len(s_snapshot) THEN "loop" ELSE "done"
           /\ s_cursor' = IF d2.cursor < Len(s_snapshot) THEN d2.cursor + 1 ELSE d2.cursor
    /\ telemetry' = <<>>
    /\ UNCHANGED <<WEBVIEW_OPTIMIZER_RUNNING, WMI_WATCHER_ACTIVE, PROCESSES_ELEVATED,
                   caller_pc, wmi_pc, poll_pc, chan, wmi_pids, poll_pids, events, procs,
                   spawned, wmi_threads, poll_threads, guard_passes, stop_requested,
                   stale_cycles, wmi_step, wmi_returned, s_snapshot,
                   dvars, gvars, hvars, uvars, lvars, evars, cvars>>

\* CloseHandle(snapshot), the return, the inserts of the polling loop and its sleep
ScanEnd ==
    /\ s_pc = "done"
    /\ poll_pids' = poll_pids \cup s_new_pids
    /\ s_pc' = "idle"
    /\ s_snapshot' = <<>>
    /\ s_cursor' = 0
    /\ s_visited' = <<>>
    /\ s_new_pids' = {}
    /\ s_checks' = 0
    /\ telemetry' = <<>>
    /\ UNCHANGED <<WEBVIEW_OPTIMIZER_RUNNING, WMI_WATCHER_ACTIVE, PROCESSES_ELEVATED,
                   caller_pc, wmi_pc, poll_pc, chan, wmi_pids, events, procs, spawned,
                   wmi_threads, poll_threads, guard_passes, elevations, stop_requested,
                   stale_cycles, wmi_step, wmi_returned, elevated_now,
                   dvars, gvars, hvars, uvars, lvars, evars, cvars>>

NextScan ==
    \/ NextCommon
    \/ \E ok \in BOOLEAN : ScanStart(ok)
    \/ \E ok1, ok2 \in BOOLEAN, outcome \in Access : ScanEntry(ok1, ok2, outcome)
    \/ ScanEnd

\* the program, the scan of the polling thread taken entry by entry
SpecScan == Init /\ [][NextScan]_vars

(***************************************************************************)
(* The handles of the watcher: what each function opens and closes, in the *)
(* order of its calls.                                                     *)
(***************************************************************************)
\* a successful OpenProcess or CreateToolhelp32Snapshot returning handle h, and
\* CloseHandle(h)
Opened(h) == [op |-> "open", h |-> h]
Closed(h) == [op |-> "close", h |-> h]

\* elevate_single_process(pid): CloseHandle follows SetPriorityClass and
\* SetProcessPriorityBoost whatever they return
\* (elevate_single_process_calls_leaky: the handle closed only after a successful
\* SetPriorityClass)
elevate_single_process_calls_leaky(pid, outcome) ==
    IF ~OpenProcess_ok(outcome) THEN <<>>
    ELSE <<Opened(<<"process", pid>>)>>
         \o (IF SetPriorityClass_ok(outcome) THEN <<Closed(<<"process", pid>>)>> ELSE <<>>)
elevate_single_process_calls(pid, outcome) ==
    IF ~OpenProcess_ok(outcome) THEN <<>>
    ELSE <<Opened(<<"process", pid>>), Closed(<<"process", pid>>)>>

\* is_descendant_of_pid(pid, ancestor_pid): `return false` before any handle exists when
\* the snapshot fails; otherwise every `break` of the loop leads to CloseHandle(snapshot)
is_descendant_of_pid_calls(ok, h) ==
    IF ~ok THEN <<>> ELSE <<Opened(h), Closed(h)>>

\* is_descendant_of(_snapshot, pid, ancestor_pid): the same with local_snapshot
is_descendant_of_calls(ok, h) ==
    IF ~ok THEN <<>> ELSE <<Opened(h), Closed(h)>>

\* the body of the loop of elevate_webview2_processes on entries i.. of its snapshot.
\* inner1, inner2: the pids for which the snapshot of the first and of the second call
\* of is_descendant_of could be created
RECURSIVE scan_calls(_, _, _, _, _, _)
scan_calls(snapshot, i, already_optimized, inner1, inner2, outcome) ==
    IF i > Len(snapshot) THEN <<>>
    ELSE LET pid == snapshot[i].th32ProcessID
             parent_pid == snapshot[i].th32ParentProcessID
             webview == is_webview(snapshot[i].szExeFile)
             calls == webview /\ parent_pid # our_pid
             c1 == IF calls THEN is_descendant_of_calls(pid \in inner1, <<"local", i, 1>>)
                   ELSE <<>>
             c2 == IF calls THEN is_descendant_of_calls(pid \in inner2, <<"local", i, 2>>)
                   ELSE <<>>
             attempt == /\ webview
                        /\ (parent_pid = our_pid
                            \/ is_descendant_of(pid \in inner2, snapshot, pid, our_pid))
                        /\ poll_not_optimized(already_optimized, pid)
             c3 == IF attempt /\ OpenProcess_ok(outcome[pid])
                   THEN <<Opened(<<"process", pid>>), Closed(<<"process", pid>>)>>
                   ELSE <<>>
         IN  c1 \o c2 \o c3
             \o scan_calls(snapshot, i + 1, already_optimized, inner1, inner2, outcome)

\* elevate_webview2_processes(already_optimized): `?` returns before any handle exists;
\* otherwise CloseHandle(snapshot) follows the loop, entered or not
elevate_webview2_processes_calls(already_optimized, ok, snapshot, inner1, inner2, outcome) ==
    IF ~ok THEN <<>>
    ELSE <<Opened(<<"snapshot">>)>>
         \o scan_calls(snapshot, 1, already_optimized, inner1, inner2, outcome)
         \o <<Closed(<<"snapshot">>)>>

\* one call of one of the four functions, on the process table as it stands
HandlesOfElevate(pid, outcome) ==
    /\ outcome \in Outcomes(pid)
    /\ handle_calls' = elevate_single_process_calls(pid, outcome)
    /\ UNCHANGED <<wvars, dvars, gvars, hvars, uvars, lvars, svars, cvars>>

HandlesOfDescendantPid(ok) ==
    /\ handle_calls' = is_descendant_of_pid_calls(ok, <<"snapshot">>)
    /\ UNCHANGED <<wvars, dvars, gvars, hvars, uvars, lvars, svars, cvars>>

HandlesOfDescendant(ok) ==
    /\ handle_calls' = is_descendant_of_calls(ok, <<"local_snapshot">>)
    /\ UNCHANGED <<wvars, dvars, gvars, hvars, uvars, lvars, svars, cvars>>

HandlesOfScan(already_optimized, ok, inner1, inner2, outcome) ==
    /\ \A p \in Pids \ Candidates : outcome[p] = "noopen"
    /\ handle_calls' = elevate_webview2_processes_calls(
                           already_optimized, ok, CreateToolhelp32Snapshot,
                           inner1, inner2, outcome)
    /\ UNCHANGED <<wvars, dvars, gvars, hvars, uvars, lvars, svars, cvars>>

NextHandles ==
    \/ \E p \in Pids, name \in Names :
         \E parent \in ({0, our_pid} \cup Pids) \ {p} : Spawn(p, parent, name)
    \/ \E p \in Pids : Exit(p)
    \/ \E pid \in Pids, outcome \in Access : HandlesOfElevate(pid, outcome)
    \/ \E ok \in BOOLEAN : HandlesOfDescendantPid(ok)
    \/ \E ok \in BOOLEAN : HandlesOfDescendant(ok)
    \/ \E already_optimized \in SUBSET Pids, ok \in BOOLEAN,
          inner1 \in SUBSET Candidates, inner2 \in SUBSET Candidates,
          outcome \in [Pids -> Access] :
            HandlesOfScan(already_optimized, ok, inner1, inner2, outcome)

\* the four functions called on every process table
SpecHandles == Init /\ [][NextHandles]_vars

(***************************************************************************)
(* The updater commands: check_for_updates and install_update.             *)
(***************************************************************************)
\* what updater.check() can meet; "build" is a failure of updater_builder().build()
CheckOutcomes == {"build", "some", "none", "err"}

\* the slot after check_for_updates: written only in the Ok(Some(update)) arm
\* (slot_after_check_overwriting: the slot written with whatever the check found)
slot_after_check_overwriting(slot, outcome, update) ==
    IF outcome = "some" THEN Some(update) ELSE None
slot_after_check(slot, outcome, update) ==
    IF outcome = "some" THEN Some(update) ELSE slot

\* Option::take on the locked slot: the value taken and the slot left
\* (take_clone: the value read, the slot left as it was)
take_clone(slot) == [taken |-> slot, slot |-> slot]
take(slot) == [taken |-> slot, slot |-> None]

\* `.ok_or_else(|| "No pending update to install")?`: whether install_update goes on
\* (ok_or_else_never: the test never returning)
ok_or_else_never(taken) == TRUE
ok_or_else_passes(taken) == taken # None

\* check_for_updates(app, pending); the await of updater.check() reads nothing of the
\* slot, which is locked only in the arm that stores
CheckForUpdates(c, outcome) ==
    /\ upd_pc[c] = "idle"
    /\ outcome = "some" => upd_checks < MaxChecks
    /\ LET update == [id |-> upd_checks + 1]
       IN  /\ pending' = slot_after_check(pending, outcome, update)
           /\ upd_checks' = IF outcome = "some" THEN upd_checks + 1 ELSE upd_checks
           /\ upd_returned' =
                  <<[fn |-> "check_for_updates", caller |-> c,
                     result |-> CASE outcome = "some" -> "available"
                                  [] outcome = "none" -> "up to date"
                                  [] outcome = "err" -> "Err(check)"
                                  [] outcome = "build" -> "Err(build)"]>>
    /\ win_returned' = <<>>
    /\ UNCHANGED <<upd_pc, upd_held, downloads, CURRENT_WINDOW_MODE, window,
                   wvars, dvars, gvars, hvars, uvars, lvars, svars, evars>>

\* install_update(pending) up to the await of download_and_install
InstallTake(c) ==
    /\ upd_pc[c] = "idle"
    /\ LET t == take(pending)
       IN  /\ pending' = t.slot
           /\ IF ok_or_else_passes(t.taken)
              THEN /\ upd_pc' = [upd_pc EXCEPT ![c] = "downloading"]
                   /\ upd_held' = [upd_held EXCEPT ![c] = t.taken]
                   /\ downloads' = Append(downloads, t.taken)
                   /\ upd_returned' = <<>>
              ELSE /\ upd_returned' =
                          <<[fn |-> "install_update", caller |-> c,
                             result |-> "No pending update to install"]>>
                   /\ UNCHANGED <<upd_pc, upd_held, downloads>>
    /\ win_returned' = <<>>
    /\ UNCHANGED <<upd_checks, CURRENT_WINDOW_MODE, window,
                   wvars, dvars, gvars, hvars, uvars, lvars, svars, evars>>

\* download_and_install returns; the Update is dropped
InstallDone(c, ok) ==
    /\ upd_pc[c] = "downloading"
    /\ upd_pc' = [upd_pc EXCEPT ![c] = "idle"]
    /\ upd_held' = [upd_held EXCEPT ![c] = None]
    /\ upd_returned' = <<[fn |-> "install_update", caller |-> c,
                          result |-> IF ok THEN "Ok" ELSE "Err(install)"]>>
    /\ win_returned' = <<>>
    /\ UNCHANGED <<pending, upd_checks, downloads, CURRENT_WINDOW_MODE, window,
                   wvars, dvars, gvars, hvars, uvars, lvars, svars, evars>>

NextUpdate ==
    \/ \E c \in UpdCallers, outcome \in CheckOutcomes : CheckForUpdates(c, outcome)
    \/ \E c \in UpdCallers : InstallTake(c)
    \/ \E c \in UpdCallers, ok \in BOOLEAN : InstallDone(c, ok)

\* the updater commands, called by concurrent callers
SpecUpdate == Init /\ [][NextUpdate]_vars

(***************************************************************************)
(* The window commands: set_window_mode, toggle_fullscreen, get_window_mode *)
(***************************************************************************)
WindowMode == {"Windowed", "Fullscreen", "BorderlessWindowed"}

\* WindowMode::to_u8
to_u8(mode) ==
    CASE mode = "Windowed" -> 0
      [] mode = "Fullscreen" -> 1
      [] mode = "BorderlessWindowed" -> 2

\* WindowMode::from_u8
from_u8(v) ==
    CASE v = 1 -> "Fullscreen"
      [] v = 2 -> "BorderlessWindowed"
      [] OTHER -> "Windowed"

\* one successful call on the window
apply_op(w, op) ==
    CASE op = "set_fullscreen(true)" -> [w EXCEPT !.fullscreen = TRUE]
      [] op = "set_fullscreen(false)" -> [w EXCEPT !.fullscreen = FALSE]
      [] op = "set_decorations(true)" -> [w EXCEPT !.decorations = TRUE]
      [] op = "set_decorations(false)" -> [w EXCEPT !.decorations = FALSE]
      [] op = "maximize" -> [w EXCEPT !.maximized = TRUE]
      [] op = "unmaximize" -> [w EXCEPT !.maximized = FALSE]

RECURSIVE apply_ops(_, _)
apply_ops(w, ops) ==
    IF ops = <<>> THEN w ELSE apply_ops(apply_op(w, Head(ops)), Tail(ops))

\* the calls with `?`, in order, until the one numbered fail_at returns Err and the
\* command returns; fail_at = 0: none fails
run_ops(w, ops, fail_at) ==
    [window |-> apply_ops(w, SubSeq(ops, 1, IF fail_at = 0 THEN Len(ops) ELSE fail_at - 1)),
     ok |-> fail_at = 0]

\* the window calls of set_window_mode from current_mode to another mode
set_window_mode_ops(current_mode, mode) ==
    CASE mode = "Windowed" ->
            (IF current_mode = "Fullscreen" THEN <<"set_fullscreen(false)">> ELSE <<>>)
            \o <<"set_decorations(true)">>
            \o (IF current_mode = "BorderlessWindowed" THEN <<"unmaximize">> ELSE <<>>)
      [] mode = "Fullscreen" ->
            (IF current_mode = "BorderlessWindowed"
             THEN <<"set_decorations(true)", "unmaximize">> ELSE <<>>)
            \o <<"set_fullscreen(true)">>
      [] mode = "BorderlessWindowed" ->
            (IF current_mode = "Fullscreen" THEN <<"set_fullscreen(false)">> ELSE <<>>)
            \o <<"set_decorations(false)", "maximize">>

\* the mode toggle_fullscreen stores, and the boolean it returns
\* (toggle_target_restoring: Windowed entered only from Fullscreen reached from Windowed)
toggle_target_restoring(current_mode) ==
    IF current_mode = "Fullscreen" THEN "BorderlessWindowed" ELSE "Fullscreen"
toggle_target(current_mode) ==
    IF current_mode = "Fullscreen" THEN "Windowed" ELSE "Fullscreen"

\* the window calls of toggle_fullscreen
toggle_fullscreen_ops(current_mode) ==
    IF current_mode = "Fullscreen"
    THEN <<"set_fullscreen(false)", "set_decorations(true)">>
    ELSE (IF current_mode = "BorderlessWindowed"
          THEN <<"set_decorations(true)", "unmaximize">> ELSE <<>>)
         \o <<"set_fullscreen(true)">>

\* set_window_mode(app, mode). found: get_webview_window("main") returned the window
SetWindowMode(found, mode, fail_at) ==
    LET current_mode == from_u8(CURRENT_WINDOW_MODE)
        ops == set_window_mode_ops(current_mode, mode)
        r == run_ops(window, ops, fail_at)
        base == [fn |-> "set_window_mode", before |-> current_mode]
    IN  /\ fail_at \in 0..Len(ops)
        /\ IF ~found
           THEN /\ fail_at = 0
                /\ win_returned' = <<base @@ [result |-> "Err", value |-> "not found"]>>
                /\ UNCHANGED <<CURRENT_WINDOW_MODE, window>>
           ELSE IF current_mode = mode
           THEN /\ fail_at = 0
                /\ win_returned' = <<base @@ [result |-> "Ok", value |-> mode]>>
                /\ UNCHANGED <<CURRENT_WINDOW_MODE, window>>
           ELSE /\ window' = r.window
                /\ CURRENT_WINDOW_MODE' = IF r.ok THEN to_u8(mode) ELSE CURRENT_WINDOW_MODE
                /\ win_returned' =
                       <<base @@ (IF r.ok THEN [result |-> "Ok", value |-> mode]
                                  ELSE [result |-> "Err", value |-> ops[fail_at]])>>
        /\ upd_returned' = <<>>
        /\ UNCHANGED <<pending, upd_pc, upd_held, upd_checks, downloads,
                       wvars, dvars, gvars, hvars, uvars, lvars, svars, evars>>

\* toggle_fullscreen(app)
ToggleFullscreen(found, fail_at) ==
    LET current_mode == from_u8(CURRENT_WINDOW_MODE)
        ops == toggle_fullscreen_ops(current_mode)
        r == run_ops(window, ops, fail_at)
        target == toggle_target(current_mode)
        base == [fn |-> "toggle_fullscreen", before |-> current_mode]
    IN  /\ fail_at \in 0..Len(ops)
        /\ IF ~found
           THEN /\ fail_at = 0
                /\ win_returned' = <<base @@ [result |-> "Err", value |-> "not found"]>>
                /\ UNCHANGED <<CURRENT_WINDOW_MODE, window>>
           ELSE /\ window' = r.window
                /\ CURRENT_WINDOW_MODE' = IF r.ok THEN to_u8(target)
                                          ELSE CURRENT_WINDOW_MODE
                /\ win_returned' =
                       <<base @@ (IF r.ok
                                  THEN [result |-> "Ok", value |-> target = "Fullscreen"]
                                  ELSE [result |-> "Err", value |-> ops[fail_at]])>>
        /\ upd_returned' = <<>>
        /\ UNCHANGED <<pending, upd_pc, upd_held, upd_checks, downloads,
                       wvars, dvars, gvars, hvars, uvars, lvars, svars, evars>>

\* get_window_mode(_app)
GetWindowMode ==
    /\ win_returned' = <<[fn |-> "get_window_mode",
                          before |-> from_u8(CURRENT_WINDOW_MODE),
                          result |-> "Ok", value |-> from_u8(CURRENT_WINDOW_MODE)]>>
    /\ upd_returned' = <<>>
    /\ UNCHANGED <<CURRENT_WINDOW_MODE, window, pending, upd_pc, upd_held, upd_checks,
                   downloads, wvars, dvars, gvars, hvars, uvars, lvars, svars, evars>>

\* the positions at which a command can fail: none (0), or one of its window calls, of
\* which the longest command makes three
FailAt == 0..Len(set_window_mode_ops("Fullscreen", "BorderlessWindowed"))

NextWindow ==
    \/ \E found \in BOOLEAN, mode \in WindowMode, fail_at \in FailAt :
         SetWindowMode(found, mode, fail_at)
    \/ \E found \in BOOLEAN, fail_at \in FailAt : ToggleFullscreen(found, fail_at)
    \/ GetWindowMode

\* the commands of commands.rs on the window and on the updater
SpecCommands == Init /\ [][NextWindow \/ NextUpdate]_vars

(***************************************************************************)
(* The host process: main, apply_system_optimizations and the ways the     *)
(* process ends.                                                           *)
(***************************************************************************)
\* apply_system_optimizations, lines 629-640: `if timeBeginPeriod(1) == 0` the cleanup
\* is registered; the value atexit returns is not looked at
HostApply(begin_ok, atexit_ok) ==
    /\ host_pc = "start"
    /\ host_pc' = "running"
    /\ timer_held' = IF begin_ok THEN timer_held + 1 ELSE timer_held
    /\ cleanup_registered' = (begin_ok /\ atexit_ok)
    /\ UNCHANGED <<wvars, dvars, gvars, uvars, lvars, svars, evars, cvars>>

\* the handlers registered with atexit run: cleanup calls timeEndPeriod(1)
run_atexit == IF cleanup_registered /\ timer_held > 0 THEN timer_held - 1 ELSE timer_held

\* the process ends through exit(): main returns or std::process::exit is called
HostExit ==
    /\ host_pc = "running"
    /\ host_pc' = "exited"
    /\ timer_held' = run_atexit
    /\ UNCHANGED <<cleanup_registered, wvars, dvars, gvars, uvars, lvars, svars, evars, cvars>>

\* a panic is raised in main (`.expect("Failed to run application")`, main.rs:990). No
\* panic hook is installed: the default hook prints the message.
HostFatal ==
    /\ host_pc = "running"
    /\ host_pc' = "fatal"
    /\ UNCHANGED <<timer_held, cleanup_registered, wvars, dvars, gvars, uvars, lvars, svars, evars, cvars>>

\* the panic propagates. unwind: the build unwinds, main ends with code 101 through
\* exit() and the atexit handlers run; otherwise the build aborts and none runs.
HostPropagate(unwind) ==
    /\ host_pc = "fatal"
    /\ host_pc' = IF unwind THEN "exited" ELSE "aborted"
    /\ timer_held' = IF unwind THEN run_atexit ELSE timer_held
    /\ UNCHANGED <<cleanup_registered, wvars, dvars, gvars, uvars, lvars, svars, evars, cvars>>

\* the threads of the process run while it lives
HostAlive == host_pc \in {"running", "fatal"}

NextHost ==
    \/ \E begin_ok, atexit_ok \in BOOLEAN : HostApply(begin_ok, atexit_ok)
    \/ HostExit
    \/ HostFatal
    \/ \E unwind \in BOOLEAN : HostPropagate(unwind)
    \/ HostAlive /\ NextBase
    \/ HostAlive /\ PollIteration

\* the host process with its watcher threads
SpecHost == Init /\ [][NextHost]_vars

(***************************************************************************)
(* PerformanceMonitor: new and get_stats.                                  *)
(***************************************************************************)
\* a Duration of t half seconds
Duration(t) == [secs |-> t \div 2, half |-> t % 2]

\* Instant::elapsed(): Instant::now() - start_time, which saturates to zero
\* (elapsed_reversed: the operands exchanged, unsaturated)
elapsed_reversed(start_time, now) == Duration(start_time - now)
elapsed(start_time, now) == IF now >= start_time THEN Duration(now - start_time)
                            ELSE Duration(0)

\* Duration::as_secs_f64(), in half seconds
as_secs_f64(d) == 2 * d.secs + d.half

\* time passes
PmTick ==
    /\ pm_clock < MaxClock
    /\ pm_clock' = pm_clock + 1
    /\ UNCHANGED <<pm_start, pm_pc, pm_calls, pm_returned, wvars, dvars, gvars, hvars, lvars, svars, evars, cvars>>

\* PerformanceMonitor::new(): start_time = Instant::now()
PmNew ==
    /\ pm_start = <<>>
    /\ pm_start' = <<pm_clock>>
    /\ UNCHANGED <<pm_clock, pm_pc, pm_calls, pm_returned, wvars, dvars, gvars, hvars, lvars, svars, evars, cvars>>

\* get_stats(&self) is called and waits for the lock of `system`
PmCall(c) ==
    /\ pm_start # <<>>
    /\ pm_pc[c] = "idle"
    /\ pm_calls < MaxStatsCalls
    /\ pm_calls' = pm_calls + 1
    /\ pm_pc' = [pm_pc EXCEPT ![c] = "called"]
    /\ UNCHANGED <<pm_clock, pm_start, pm_returned, wvars, dvars, gvars, hvars, lvars, svars, evars, cvars>>

\* `self.system.lock().unwrap_or_else(|e| e.into_inner())`: the guard lives to the end
\* of get_stats
PmLock(c) ==
    /\ pm_pc[c] = "called"
    /\ \A o \in PmCallers : pm_pc[o] # "locked"
    /\ pm_pc' = [pm_pc EXCEPT ![c] = "locked"]
    /\ UNCHANGED <<pm_clock, pm_start, pm_calls, pm_returned, wvars, dvars, gvars, hvars, lvars, svars, evars, cvars>>

\* the refreshes, `let uptime = self.start_time.elapsed()` and the return of the
\* PerformanceStats, which drops the guard
PmGetStats(c) ==
    /\ pm_pc[c] = "locked"
    /\ pm_returned' = Append(pm_returned, as_secs_f64(elapsed(pm_start[1], pm_clock)))
    /\ pm_pc' = [pm_pc EXCEPT ![c] = "idle"]
    /\ UNCHANGED <<pm_clock, pm_start, pm_calls, wvars, dvars, gvars, hvars, lvars, svars, evars, cvars>>

NextPm ==
    \/ PmTick
    \/ PmNew
    \/ \E c \in PmCallers : PmCall(c)
    \/ \E c \in PmCallers : PmLock(c)
    \/ \E c \in PmCallers : PmGetStats(c)

SpecPm == Init /\ [][NextPm]_vars

(***************************************************************************)
(* The ancestry walk run on its own: is_descendant_of(pid, ancestor_pid)   *)
(* and is_descendant_of_pid(pid, ancestor_pid), which are the same loop,   *)
(* on every process table over the pids 1..MaxWalkPid.                     *)
(***************************************************************************)
WalkPids == 1..MaxWalkPid

\* the snapshot of the table whose processes are L, with parents par
SnapshotOf(L, par) ==
    LET all == [p \in WalkPids |->
                   [th32ProcessID |-> p,
                    th32ParentProcessID |-> IF p \in L THEN par[p] ELSE 0,
                    szExeFile |-> "", live |-> p \in L]]
    IN  SelectSeq(all, LAMBDA e : e.live)

InitWalk ==
    /\ d_ok \in BOOLEAN
    /\ IF d_ok
       THEN \E L \in SUBSET WalkPids : \E par \in [L -> 0..MaxWalkPid] :
                d_snapshot = SnapshotOf(L, par)
       ELSE d_snapshot = <<>>
    /\ d_pid \in 0..MaxWalkPid
    /\ d_ancestor \in 0..MaxWalkPid
    /\ d_current = d_pid
    /\ d_visited = {}
    /\ d_trace = <<>>
    /\ d_pc = "start"
    /\ d_result = FALSE

InitAncestry ==
    InitWatcher /\ InitWalk /\ InitGpu /\ InitHost /\ InitPm /\ InitSteps /\ InitHandles
    /\ InitCommands

\* `let Ok(snapshot) = CreateToolhelp32Snapshot(..) else { return false }`
WalkStart ==
    /\ d_pc = "start"
    /\ IF d_ok
       THEN d_pc' = "loop" /\ d_result' = d_result
       ELSE d_pc' = "done" /\ d_result' = FALSE
    /\ UNCHANGED <<d_ok, d_snapshot, d_pid, d_ancestor, d_current, d_visited, d_trace,
                   wvars, gvars, xvars>>

\* one iteration of the loop; on a break, CloseHandle and return the result
WalkIteration ==
    /\ d_pc = "loop"
    /\ LET s == walk_step(d_snapshot, d_current, d_ancestor, d_visited)
       IN  /\ d_visited' = s.visited
           /\ d_trace' = IF s.inserted THEN Append(d_trace, d_current) ELSE d_trace
           /\ d_current' = s.current_pid
           /\ IF s.brk
              THEN d_pc' = "done" /\ d_result' = s.result
              ELSE d_pc' = "loop" /\ d_result' = d_result
    /\ UNCHANGED <<d_ok, d_snapshot, d_pid, d_ancestor, wvars, gvars, xvars>>

NextAncestry == WalkStart \/ WalkIteration

SpecAncestry == InitAncestry /\ [][NextAncestry]_vars

(***************************************************************************)
(* The GPU monitor: GpuMonitor, get_gpu_monitor, get_gpu_stats.            *)
(***************************************************************************)
\* utilisation values a read can return for an engine, in tenths of a percent
GpuValues == {-50, 120, 875, 1004}
\* the value arrays a read can return: one value per engine, for 0..MaxEngines engines
EngineValues == UNION {[1..n -> GpuValues] : n \in 0..MaxEngines}
\* the status of the size query: 0, PDH_MORE_DATA, or another status
SizeStatus == {"ok", "more_data", "error"}

\* initialize(): PdhAddEnglishCounterW on "\GPU Engine(*)\Utilization Percentage" and,
\* when it is rejected, on "\GPU Engine(*)\Running Time"
\* (add_counter_primary_only: the alternative path never tried)
add_counter_primary_only(primary_ok, alt_ok) ==
    [alt_tried |-> FALSE, accepted |-> primary_ok]
add_counter(primary_ok, alt_ok) ==
    [alt_tried |-> ~primary_ok, accepted |-> primary_ok \/ alt_ok]

\* GpuMonitor::new(): the monitor after initialize() ran. open_ok: PdhOpenQueryW
\* returned 0; primary_ok, alt_ok: PdhAddEnglishCounterW returned 0 on that path. The
\* result of the first PdhCollectQueryData is discarded (`let _ =`).
GpuMonitor_new(open_ok, primary_ok, alt_ok) ==
    IF ~open_ok
    THEN [query_handle |-> None, counter_handle |-> None, is_initialized |-> FALSE,
          last_error |-> Some("PdhOpenQueryW failed")]
    ELSE IF ~add_counter(primary_ok, alt_ok).accepted
    THEN [query_handle |-> Some("query"), counter_handle |-> None,
          is_initialized |-> FALSE,
          last_error |-> Some("GPU counters not available (requires Windows 10 1709+)")]
    ELSE [query_handle |-> Some("query"), counter_handle |-> Some("counter"),
          is_initialized |-> TRUE, last_error |-> None]

\* what one run of initialize() attempted and met
initialize_run(open_ok, primary_ok, alt_ok, prime_ok) ==
    LET a == add_counter(primary_ok, alt_ok)
    IN  [opened |-> open_ok,
         primary_accepted |-> open_ok /\ primary_ok,
         alt_tried |-> open_ok /\ a.alt_tried,
         alt_accepted |-> open_ok /\ a.alt_tried /\ alt_ok,
         primed |-> open_ok /\ a.accepted /\ prime_ok]

\* GPU_MONITOR.get_or_init(..): whether the closure runs
\* (get_or_init_always: the closure run by every call)
get_or_init_always(cell) == TRUE
get_or_init_runs(cell) == cell = None

\* the loop `if value > max_usage { max_usage = value }` from max_usage = 0.0
RECURSIVE max_usage(_, _)
max_usage(values, acc) ==
    IF values = <<>> THEN acc
    ELSE max_usage(Tail(values), IF Head(values) > acc THEN Head(values) ELSE acc)

\* f64::clamp(min, max)
\* (clamp_none: the value returned as it is)
clamp_none(x, min, max) == x
clamp(x, min, max) == IF x < min THEN min ELSE IF x > max THEN max ELSE x

\* get_usage() reaches PdhCollectQueryData
\* (get_usage_collects_always: without the early returns)
get_usage_collects_always(monitor) == TRUE
get_usage_collects(monitor) ==
    /\ monitor.is_initialized
    /\ monitor.query_handle # None
    /\ monitor.counter_handle # None

\* get_usage() reads the values back: the second PdhGetFormattedCounterArrayW returns 0
get_usage_reads(monitor, collect_ok, size_status, values, read_ok) ==
    /\ get_usage_collects(monitor)
    /\ collect_ok
    /\ size_status \in {"ok", "more_data"}
    /\ Len(values) # 0      \* buffer_size == 0 || item_count == 0
    /\ read_ok

\* get_usage(), in tenths of a percent
\* (get_usage_unchecked: the maximum returned whatever the calls returned)
get_usage_unchecked(monitor, collect_ok, size_status, values, read_ok) ==
    clamp(max_usage(values, 0), 0, 1000)
get_usage(monitor, collect_ok, size_status, values, read_ok) ==
    IF get_usage_reads(monitor, collect_ok, size_status, values, read_ok)
    THEN clamp(max_usage(values, 0), 0, 1000)
    ELSE 0

\* get_stats()
get_stats(monitor, collect_ok, size_status, values, read_ok) ==
    [usage_percent |-> get_usage(monitor, collect_ok, size_status, values, read_ok),
     available |-> monitor.is_initialized,
     error |-> monitor.last_error]

\* get_gpu_stats() up to the return of get_gpu_monitor(): the first call creates the
\* monitor
GpuGetMonitor(c, open_ok, primary_ok, alt_ok, prime_ok) ==
    /\ gpu_pc[c] = "idle"
    /\ gpu_calls < MaxGpuCalls
    /\ gpu_calls' = gpu_calls + 1
    /\ gpu_pc' = [gpu_pc EXCEPT ![c] = "locking"]
    /\ IF get_or_init_runs(GPU_MONITOR)
       THEN /\ GPU_MONITOR' = Some(GpuMonitor_new(open_ok, primary_ok, alt_ok))
            /\ gpu_init' = Append(gpu_init,
                                  initialize_run(open_ok, primary_ok, alt_ok, prime_ok))
            /\ gpu_collected' = IF initialize_run(open_ok, primary_ok, alt_ok,
                                                  prime_ok).primed
                                THEN gpu_collected + 1 ELSE gpu_collected
       ELSE UNCHANGED <<GPU_MONITOR, gpu_init, gpu_collected>>
    /\ gpu_stats' = <<>>
    /\ gpu_sample' = <<>>
    /\ UNCHANGED <<gpu_read_unprimed, gpu_failed, wvars, dvars, xvars>>

\* the rest of get_gpu_stats(): lock the monitor and return get_stats()
GpuGetStats(c, collect_ok, size_status, values, read_ok) ==
    /\ gpu_pc[c] = "locking"
    /\ LET monitor == GPU_MONITOR[1]
           reads == get_usage_reads(monitor, collect_ok, size_status, values, read_ok)
       IN  /\ gpu_stats' = <<get_stats(monitor, collect_ok, size_status, values, read_ok)>>
           /\ gpu_sample' = <<[values |-> values, read |-> reads]>>
           /\ gpu_collected' = IF get_usage_collects(monitor) /\ collect_ok
                               THEN gpu_collected + 1 ELSE gpu_collected
           /\ gpu_read_unprimed' = (gpu_read_unprimed \/ (reads /\ gpu_collected = 0))
           /\ gpu_failed' = (gpu_failed \/ (get_usage_collects(monitor) /\ ~reads))
    /\ gpu_pc' = [gpu_pc EXCEPT ![c] = "idle"]
    /\ UNCHANGED <<GPU_MONITOR, gpu_calls, gpu_init, wvars, dvars, xvars>>

\* the items PdhGetFormattedCounterArrayW has to return: it is called only after
\* PdhCollectQueryData returned 0, and the size query must not fail
returned_values(collect_ok, size_status) ==
    IF collect_ok /\ size_status # "error" THEN EngineValues ELSE {<<>>}

NextGpu ==
    \/ \E c \in GpuCallers, open_ok, primary_ok, alt_ok, prime_ok \in BOOLEAN :
         GpuGetMonitor(c, open_ok, primary_ok, alt_ok, prime_ok)
    \/ \E c \in GpuCallers, collect_ok, read_ok \in BOOLEAN, size_status \in SizeStatus :
         \E values \in returned_values(collect_ok, size_status) :
             GpuGetStats(c, collect_ok, size_status, values, read_ok)

SpecGpu == Init /\ [][NextGpu]_vars

\* GpuStats::default()
GpuStats_default == [usage_percent |-> 0, available |-> FALSE, error |-> None]

\* the Err arm of get_gpu_stats(): `GpuStats { error: Some("Lock failed"), ..default }`
\* (lock_failed_stats_no_error: the default alone)
lock_failed_stats_no_error == GpuStats_default
lock_failed_stats == [GpuStats_default EXCEPT !.error = Some("Lock failed")]

\* the rest of get_gpu_stats() when lock() returns Err: the Mutex is poisoned, a thread
\* having panicked while it held the monitor
GpuLockFailed(c) ==
    /\ gpu_pc[c] = "locking"
    /\ gpu_stats' = <<lock_failed_stats>>
    /\ gpu_sample' = <<>>
    /\ gpu_pc' = [gpu_pc EXCEPT ![c] = "idle"]
    /\ UNCHANGED <<GPU_MONITOR, gpu_calls, gpu_init, gpu_collected, gpu_read_unprimed,
                   gpu_failed, wvars, dvars, xvars>>

NextGpuPoison == NextGpu \/ \E c \in GpuCallers : GpuLockFailed(c)

\* the GPU monitor, lock() allowed to fail
SpecGpuPoison == Init /\ [][NextGpuPoison]_vars

\* size_of::<PDH_FMT_COUNTERVALUE_ITEM_W>() on a 64-bit target: a pointer, then a
\* PDH_FMT_COUNTERVALUE of a u32 status and an 8-byte union
ItemSize == 24
\* the byte counts the size query can report
BufferSizes == {0, ItemSize, ItemSize + 16}

\* `for i in 0..item_count { if i < buffer.len() { .. } }`: the indices read
\* (indices_read_unguarded: the loop without its test)
indices_read_unguarded(item_count, buffer_len) == 0..(item_count - 1)
indices_read(item_count, buffer_len) == {i \in 0..(item_count - 1) : i < buffer_len}

\* get_usage() from the size query on, PdhCollectQueryData having returned 0.
\* size_status, buffer_size, item_count: what the size query reports; read_ok and values:
\* the status of the second PdhGetFormattedCounterArrayW, and the items it has for the
\* caller, as many as it writes to item_count
get_usage_buffer(size_status, buffer_size, item_count, read_ok, values) ==
    LET buffer_len == (buffer_size + ItemSize - 1) \div ItemSize
        allocated == IF buffer_len > item_count THEN buffer_len ELSE item_count
        \* the zeroed Vec after the call wrote what fits
        buffer == [i \in 0..(allocated - 1) |->
                       IF read_ok /\ i < Len(values) THEN values[i + 1] ELSE 0]
        indices == indices_read(Len(values), allocated)
        stored == [k \in 1..Cardinality(indices \cap DOMAIN buffer) |-> buffer[k - 1]]
        base == [size_status |-> size_status, buffer_size |-> buffer_size,
                 item_count |-> item_count, item_count_read |-> Len(values)]
    IN  IF size_status = "error" \/ buffer_size = 0 \/ item_count = 0
        THEN [base |-> base, array_reads |-> 0, allocated |-> 0, indices |-> {},
              usage |-> 0]
        ELSE IF ~read_ok
        THEN [base |-> base, array_reads |-> 1, allocated |-> allocated, indices |-> {},
              usage |-> 0]
        ELSE [base |-> base, array_reads |-> 1, allocated |-> allocated,
              indices |-> indices,
              usage |-> clamp(max_usage(stored, 0), 0, 1000)]

\* the rest of get_gpu_stats(), get_usage() taken call by call
GpuGetStatsBuffer(c, collect_ok, size_status, buffer_size, item_count, read_ok, values) ==
    /\ gpu_pc[c] = "locking"
    /\ LET monitor == GPU_MONITOR[1]
           collected == get_usage_collects(monitor) /\ collect_ok
           b == get_usage_buffer(size_status, buffer_size, item_count, read_ok, values)
           reads == collected /\ b.array_reads = 1 /\ read_ok
       IN  /\ gpu_stats' = <<[usage_percent |-> IF collected THEN b.usage ELSE 0,
                              available |-> monitor.is_initialized,
                              error |-> monitor.last_error]>>
           /\ gpu_sample' = IF collected THEN <<b>> ELSE <<>>
           /\ gpu_collected' = IF collected THEN gpu_collected + 1 ELSE gpu_collected
           /\ gpu_read_unprimed' = (gpu_read_unprimed \/ (reads /\ gpu_collected = 0))
           /\ gpu_failed' = (gpu_failed \/ (get_usage_collects(monitor) /\ ~reads))
    /\ gpu_pc' = [gpu_pc EXCEPT ![c] = "idle"]
    /\ UNCHANGED <<GPU_MONITOR, gpu_calls, gpu_init, wvars, dvars, xvars>>

NextGpuBuffer ==
    \/ \E c \in GpuCallers, open_ok, primary_ok, alt_ok, prime_ok \in BOOLEAN :
         GpuGetMonitor(c, open_ok, primary_ok, alt_ok, prime_ok)
    \/ \E c \in GpuCallers, collect_ok, read_ok \in BOOLEAN, size_status \in SizeStatus,
          buffer_size \in BufferSizes, item_count \in 0..MaxEngines :
         \E values \in returned_values(collect_ok, size_status) :
             GpuGetStatsBuffer(c, collect_ok, size_status, buffer_size, item_count,
                               read_ok, values)

\* the GPU monitor, the buffer of get_usage modelled
SpecGpuBuffer == Init /\ [][NextGpuBuffer]_vars

(***************************************************************************)
(* Properties of the watcher.                                              *)
(***************************************************************************)
\* C1: however many calls of start_webview_optimizer are made, and however they
\* interleave, exactly one passes the guard: it spawns the one WMI thread and at most
\* one polling thread; every other call returns having spawned nothing.
C1_StartOnce ==
    /\ guard_passes = (IF \E c \in Callers : caller_pc[c] # "idle" THEN 1 ELSE 0)
    /\ wmi_threads = guard_passes
    /\ poll_threads <= guard_passes
    /\ WEBVIEW_OPTIMIZER_RUNNING = (guard_passes = 1)

\* every caller has called and returned
C1_Witness ==
    /\ \A c \in Callers : caller_pc[c] = "returned"
    /\ guard_passes = 1
    /\ wmi_threads = 1

\* C2: the event loop of the WMI thread and the loop of the polling thread are never
\* both running.
C2_OneLoop == ~(wmi_pc = "loop" /\ poll_pc = "loop")

\* C3: no pid is elevated more than once.
C3_NoDoubleElevation == \A p \in Pids : elevations[p] <= 1

RECURSIVE total_elevations(_)
total_elevations(S) ==
    IF S = {} THEN 0
    ELSE LET p == Min(S) IN elevations[p] + total_elevations(S \ {p})

\* C5: PROCESSES_ELEVATED is the number of elevations made, by the event loop or by
\* the polling loop.
C5_CounterCountsElevations == PROCESSES_ELEVATED = total_elevations(Pids)

\* C6: no step decreases PROCESSES_ELEVATED, and a telemetry read returns the counter
\* as it is.
C6_CounterMonotone ==
    [][/\ PROCESSES_ELEVATED' >= PROCESSES_ELEVATED
       /\ telemetry' # <<>> =>
            /\ telemetry'[1].processes_elevated = PROCESSES_ELEVATED'
            /\ PROCESSES_ELEVATED' = PROCESSES_ELEVATED
      ]_vars

\* a telemetry read that returns a counter incremented twice
C6_Witness ==
    /\ telemetry # <<>>
    /\ telemetry[1].processes_elevated = 2
    /\ PROCESSES_ELEVATED = 2

\* C7: once a stop is requested, the polling loop elevates and tracks nothing more.
C7_StopHaltsPolling ==
    [][stop_requested => (poll_pids' = poll_pids /\ elevations' = elevations)]_vars

\* C8: the pid of an exited process does not stay in the tracking set of the polling
\* loop for GcCycles consecutive iterations.
C8_ExitedPidRemoved == stale_cycles < GcCycles

(***************************************************************************)
(* Properties of the ancestry walk.                                        *)
(***************************************************************************)
\* the pid that k parent links of the snapshot lead to from pid; None when a link
\* starts at pid 0 or at a pid that has no entry
RECURSIVE Link(_, _, _)
Link(snapshot, pid, k) ==
    IF k = 0 THEN Some(pid)
    ELSE LET q == Link(snapshot, pid, k - 1)
         IN  IF q = None \/ q[1] = 0 THEN None ELSE found_parent(snapshot, q[1])

\* the pid that j links lead to was met after fewer links already
VisitedBefore(snapshot, pid, j) ==
    \E i \in 0..(j - 1) : Link(snapshot, pid, i) = Link(snapshot, pid, j)

\* ancestor_pid is reached by one or more parent links from pid, each of them starting
\* at a pid that is not 0, has an entry and was not visited before
Reaches(snapshot, pid, ancestor_pid) ==
    \E k \in 1..(Len(snapshot) + 1) :
        /\ Link(snapshot, pid, k) = Some(ancestor_pid)
        /\ \A j \in 0..(k - 1) :
            /\ Link(snapshot, pid, j) # None
            /\ Link(snapshot, pid, j)[1] # 0
            /\ found_parent(snapshot, Link(snapshot, pid, j)[1]) # None
            /\ ~VisitedBefore(snapshot, pid, j)

\* the parent links from pid never end: they run into a cycle
RunsIntoCycle(snapshot, pid) ==
    \A k \in 0..(Len(snapshot) + 1) :
        /\ Link(snapshot, pid, k) # None
        /\ Link(snapshot, pid, k)[1] # 0
        /\ found_parent(snapshot, Link(snapshot, pid, k)[1]) # None

\* ancestor_pid is the parent of pid or of a pid the links from pid lead to
OnChain(snapshot, pid, ancestor_pid) ==
    \E k \in 1..(Len(snapshot) + 1) : Link(snapshot, pid, k) = Some(ancestor_pid)

NoDuplicates(seq) == \A i, j \in DOMAIN seq : i # j => seq[i] # seq[j]

\* C9: on every process table the walk terminates, having inserted no pid into visited
\* twice (so it makes at most one iteration per entry of the snapshot, and one more), and
\* when the parent links from pid run into a cycle and ancestor_pid is not on them, it
\* returns false.
C9_CycleSafety ==
    /\ NoDuplicates(d_trace)
    /\ Len(d_trace) <= Len(d_snapshot) + 1
    /\ d_pc \in {"start", "loop", "done"}
    /\ (d_pc = "done" /\ RunsIntoCycle(d_snapshot, d_pid)
            /\ ~OnChain(d_snapshot, d_pid, d_ancestor)) => d_result = FALSE

\* a walk that went round a cycle of two pids or more and returned false
C9_Witness ==
    /\ d_pc = "done"
    /\ d_ok
    /\ RunsIntoCycle(d_snapshot, d_pid)
    /\ ~OnChain(d_snapshot, d_pid, d_ancestor)
    /\ Len(d_trace) >= 2
    /\ d_current \in d_visited
    /\ d_result = FALSE

\* C10: the walk returns true exactly when the snapshot was taken and ancestor_pid is
\* reached by one or more parent links from pid before a link would start at pid 0, at
\* a pid without an entry or at a pid already visited; otherwise it returns false. The
\* functions is_descendant_of and is_descendant_of_pid return what the walk returns.
C10_AncestryResult ==
    d_pc = "done" =>
        /\ d_result = (d_ok /\ Reaches(d_snapshot, d_pid, d_ancestor))
        /\ is_descendant_of(d_ok, d_snapshot, d_pid, d_ancestor) = d_result
        /\ is_descendant_of_pid(d_ok, d_snapshot, d_pid, d_ancestor) = d_result

\* a walk that returned true after following two links or more
C10_Witness ==
    /\ d_pc = "done"
    /\ d_result = TRUE
    /\ Len(d_trace) >= 2
    /\ d_ancestor # 0

(***************************************************************************)
(* Properties of the filter, of the end of the event stream and of the     *)
(* telemetry.                                                              *)
(***************************************************************************)
\* the process that holds pid p now has a matching name and is a child or a descendant
\* of the host in the process table
MatchingHostDescendant(p) ==
    /\ procs[p].live
    /\ procs[p].name \in {"MsEdgeWebView2.exe"}
    /\ Reaches(CreateToolhelp32Snapshot, p, our_pid)

\* C11: a step that elevates the process of a pid, or inserts the pid in a tracking
\* set, does so only when that process has a matching name and is a child or a
\* descendant of the host.
C11_OnlyMatchingDescendants ==
    [][\A p \in Pids :
            (\/ elevations'[p] > elevations[p]
             \/ p \in wmi_pids' \ wmi_pids
             \/ p \in poll_pids' \ poll_pids) => MatchingHostDescendant(p)
      ]_vars

\* C12: once the event stream has ended the event loop stays ended, WMI_WATCHER_ACTIVE
\* stays false, no thread is spawned and no process is elevated.
C12_StreamEndStops ==
    [][wmi_pc = "ended" =>
            /\ wmi_pc' = "ended"
            /\ ~WMI_WATCHER_ACTIVE /\ ~WMI_WATCHER_ACTIVE'
            /\ wmi_threads' = wmi_threads
            /\ poll_threads' = poll_threads
            /\ elevations' = elevations
      ]_vars

\* a thread of the watcher is running or about to be started by a waiting caller
WatcherRunning ==
    \/ wmi_pc \in {"init", "loop"}
    \/ poll_pc \in {"grace", "loop"}
    \/ \E c \in Callers : caller_pc[c] = "wait"

\* C13: a telemetry read reports is_active = true exactly when the watcher is running.
C13_ActiveIffRunning ==
    telemetry # <<>> => (telemetry[1].is_active <=> WatcherRunning)

\* C14: when a telemetry read reports is_active = true, its mode is "wmi" exactly when
\* the event loop is running and "polling" exactly when the polling thread is.
C14_ModeNamesLoop ==
    (telemetry # <<>> /\ telemetry[1].is_active) =>
        /\ (telemetry[1].mode = "wmi") <=> (wmi_pc = "loop")
        /\ (telemetry[1].mode = "polling") <=> (poll_pc \in {"grace", "loop"})

\* the state a telemetry read must leave alone
state_but_telemetry ==
    <<WEBVIEW_OPTIMIZER_RUNNING, WMI_WATCHER_ACTIVE, PROCESSES_ELEVATED, caller_pc, wmi_pc,
      poll_pc, chan, wmi_pids, poll_pids, events, procs, spawned, wmi_threads,
      poll_threads, guard_passes, elevations, stop_requested, stale_cycles, dvars, gvars, xvars>>

\* C15: a telemetry read is possible in every state and changes nothing; made before
\* any call of start_webview_optimizer it returns processes_elevated = 0,
\* is_active = false and wmi_available = false.
C15_TelemetryReadOnly ==
    [][/\ ENABLED GetElevationTelemetry
       /\ telemetry' # <<>> =>
            /\ UNCHANGED state_but_telemetry
            /\ (\A c \in Callers : caller_pc[c] = "idle") =>
                    /\ telemetry'[1].processes_elevated = 0
                    /\ telemetry'[1].is_active = FALSE
                    /\ telemetry'[1].wmi_available = FALSE
      ]_vars

\* a telemetry read made before the watcher was started, with a process already created
C15_Witness ==
    /\ telemetry # <<>>
    /\ \A c \in Callers : caller_pc[c] = "idle"
    /\ spawned > 0
    /\ telemetry[1].is_active = FALSE

\* C16: the call of start_wmi_process_watcher returns true (no fallback) exactly when
\* the thread sent true while the caller was waiting, and false (fallback to polling)
\* when it sent false, when nothing was sent in 5 s or when the sender was dropped; a
\* waiting caller always returns.
C16_HandshakeReturns ==
    /\ [][\A c \in Callers :
            (caller_pc[c] = "wait" /\ caller_pc'[c] = "returned") =>
                /\ (poll_threads' = poll_threads) <=> (chan = "true")
                /\ (poll_threads' = poll_threads + 1)
                        <=> (chan \in {"false", "empty", "closed"})
         ]_vars
    /\ \A c \in Callers : (caller_pc[c] = "wait") ~> (caller_pc[c] = "returned")

\* the caller has returned on the timeout while the thread is still initialising
C16_Witness ==
    /\ \E c \in Callers : caller_pc[c] = "returned"
    /\ wmi_pc = "init"
    /\ poll_pc = "grace"
    /\ chan = "dropped"

(***************************************************************************)
(* Properties of the GPU monitor.                                          *)
(***************************************************************************)
\* the largest element of a non-empty set of integers
Largest(S) == CHOOSE x \in S : \A y \in S : y <= x

\* the values of a sequence
Range(seq) == {seq[i] : i \in 1..Len(seq)}

\* C17: whenever get_usage has read the per-engine values back, it returns their
\* maximum clamped to [0, 100]: 0 when the maximum is negative, 100 when it is above
\* 100, the maximum itself otherwise (values in tenths of a percent).
C17_MaxClamped ==
    \A i \in 1..Len(gpu_sample) :
        gpu_sample[i].read =>
            LET m == Largest(Range(gpu_sample[i].values))
            IN  gpu_stats[i].usage_percent =
                    (IF m < 0 THEN 0 ELSE IF m > 1000 THEN 1000 ELSE m)

\* C17: a read returned 12.0, 87.5 and get_usage reported 87.5
C17_Witness ==
    /\ gpu_sample = <<[values |-> <<120, 875>>, read |-> TRUE]>>
    /\ gpu_stats[1].usage_percent = 875

\* C18: the monitor is marked initialized only when the priming PdhCollectQueryData of
\* initialize() succeeded, and get_usage never reads values back when no earlier
\* collection on the query had succeeded.
C18_PrimedBeforeSampled ==
    /\ \A i \in 1..Len(GPU_MONITOR) :
           GPU_MONITOR[i].is_initialized => gpu_init[1].primed
    /\ ~gpu_read_unprimed

\* C19: a run of initialize() tries the alternative counter path exactly when the query
\* was opened and the primary path was rejected; the monitor it leaves is available
\* exactly when the query was opened and one of the two paths was accepted, and an
\* unavailable monitor carries an error reason.
C19_AlternativePath ==
    \A i \in 1..Len(gpu_init) :
        LET run == gpu_init[i]
            monitor == GPU_MONITOR[i]
        IN  /\ run.alt_tried <=> (run.opened /\ ~run.primary_accepted)
            /\ monitor.is_initialized <=>
                   (run.opened /\ (run.primary_accepted \/ run.alt_accepted))
            /\ ~monitor.is_initialized => monitor.last_error # None

\* C19: the primary path was rejected, the alternative accepted, the monitor available
C19_Witness ==
    /\ Len(gpu_init) = 1
    /\ gpu_init[1].opened
    /\ ~gpu_init[1].primary_accepted
    /\ gpu_init[1].alt_tried
    /\ gpu_init[1].alt_accepted
    /\ GPU_MONITOR[1].is_initialized

\* C20: over any calls of get_gpu_stats, GpuMonitor::new() (and with it PdhOpenQueryW)
\* runs at most once; it has run exactly when a call has been made, so the first call
\* creates the monitor and none exists before it; a created monitor is never replaced.
C20_CreatedOnce ==
    /\ [](/\ Len(gpu_init) <= 1
          /\ Len(GPU_MONITOR) = Len(gpu_init)
          /\ (Len(gpu_init) = 0 <=> gpu_calls = 0))
    /\ [][GPU_MONITOR # <<>> => GPU_MONITOR' = GPU_MONITOR]_vars

\* C20: two calls are inside get_gpu_stats at once and one monitor was created
C20_Witness ==
    /\ gpu_calls = 2
    /\ \A c \in GpuCallers : gpu_pc[c] = "locking"
    /\ Len(gpu_init) = 1
    /\ GPU_MONITOR # <<>>

(***************************************************************************)
(* Properties of the host process.                                         *)
(***************************************************************************)
\* C21: when a fatal error of the host propagates, the stop flag of the watcher has been
\* signalled and the timer-resolution request has been released; and however the
\* process has ended, no timeBeginPeriod(1) request is left unmatched.
C21_FatalHookReleases ==
    /\ [](host_pc \in {"exited", "aborted"} => timer_held = 0)
    /\ [][(host_pc = "fatal" /\ host_pc' # "fatal") =>
              (stop_requested /\ timer_held = 0)]_vars

\* C22: a get_usage that does not get to read the values back (the collection, the size
\* query or the read-back fails, or no item is reported) returns 0, and no get_gpu_stats
\* step changes the monitor: its initialized flag, handles and recorded error stay.
C22_FailedSampleNeutral ==
    /\ [](\A i \in 1..Len(gpu_sample) :
              ~gpu_sample[i].read => gpu_stats[i].usage_percent = 0)
    /\ [][gpu_sample' # <<>> => GPU_MONITOR' = GPU_MONITOR]_vars

\* C22: after a failed sample on the initialized monitor, a sample read 87.5
C22_Witness ==
    /\ gpu_failed
    /\ GPU_MONITOR # <<>>
    /\ GPU_MONITOR[1].is_initialized
    /\ gpu_sample # <<>>
    /\ gpu_sample[1].read
    /\ gpu_stats[1].usage_percent = 875

(***************************************************************************)
(* Properties of the elevation and of the event loop, on recorded          *)
(* iterations.                                                             *)
(***************************************************************************)
\* C23: a call of elevate_single_process whose OpenProcess fails returns false and the
\* iteration that made it changes neither PROCESSES_ELEVATED nor the tracking sets nor
\* any process; a call returns true exactly when SetPriorityClass succeeded on the
\* opened handle, whatever SetProcessPriorityBoost returned, and then the counter has
\* gone up by one.
C23_ElevateSingleResult ==
    [][\A i \in 1..Len(wmi_step') :
          wmi_step'[i].kind = "elevate" =>
              LET call == wmi_step'[i]
              IN  /\ call.outcome = "noopen" =>
                        /\ ~call.result
                        /\ UNCHANGED <<PROCESSES_ELEVATED, wmi_pids, poll_pids, procs,
                                       elevations, WMI_WATCHER_ACTIVE,
                                       WEBVIEW_OPTIMIZER_RUNNING>>
                  /\ call.result <=> call.outcome = "ok"
                  /\ PROCESSES_ELEVATED' =
                         IF call.result THEN PROCESSES_ELEVATED + 1
                         ELSE PROCESSES_ELEVATED
      ]_vars

\* C23: a call returned true although SetProcessPriorityBoost failed
C23_Witness ==
    /\ wmi_step # <<>>
    /\ wmi_step[1].kind = "elevate"
    /\ wmi_step[1].result
    /\ ~wmi_step[1].boost_ok
    /\ PROCESSES_ELEVATED = 1

(***************************************************************************)
(* Properties of the PerformanceMonitor.                                   *)
(***************************************************************************)
\* C24: every uptime_secs that get_stats returns is >= 0, and the values the calls on
\* one monitor return never decrease, in the order in which the calls return.
C24_UptimeMonotone ==
    /\ \A i \in 1..Len(pm_returned) : pm_returned[i] >= 0
    /\ \A i, j \in 1..Len(pm_returned) : i < j => pm_returned[i] <= pm_returned[j]

\* C24: a call returned 0, time passed while another call was waiting, and the calls
\* after it returned more
C24_Witness ==
    /\ Len(pm_returned) = 3
    /\ pm_returned[1] = 0
    /\ pm_returned[2] > 0
    /\ pm_returned[3] > pm_returned[2]

\* a live process with a matching name whose parent is the host
MatchingChild(p) ==
    /\ procs[p].live
    /\ is_webview(procs[p].name)
    /\ procs[p].parent = our_pid

\* C25: an elevation attempt that fails inserts nothing: the event loop leaves the pid
\* of a failed elevate_single_process out of its set, and a polling scan inserts only
\* pids it has just elevated. A pid absent from the set is attempted at its next
\* sighting: the event loop calls elevate_single_process for every event of a matching
\* child of the host whose pid is not in its set, and a polling scan whose snapshot is
\* created attempts every matching child of the host whose pid is not in its set.
C25_AbsentPidEligible ==
    /\ [][\A i \in 1..Len(wmi_step') :
             /\ (wmi_step'[i].kind = "elevate" /\ ~wmi_step'[i].result)
                    => wmi_step'[i].pid \notin wmi_pids'
             /\ (/\ wmi_step'[i].kind = "skip"
                 /\ is_webview(Head(events).process_name)
                 /\ Head(events).parent_process_id = our_pid)
                    => Head(events).process_id \in wmi_pids
         ]_vars
    /\ [][\A p \in poll_pids' \ poll_pids : elevations'[p] = elevations[p] + 1]_vars
    /\ [](poll_pc = "loop" =>
             \A p \in Pids :
                 (MatchingChild(p) /\ p \notin poll_pids)
                     => p \in poll_attempts(poll_pids, CreateToolhelp32Snapshot, {}))

\* C25: the event loop has just called elevate_single_process on a live matching child
\* of the host, the call failed, and the pid is in neither set
C25_Witness ==
    /\ wmi_step # <<>>
    /\ wmi_step[1].kind = "elevate"
    /\ ~wmi_step[1].result
    /\ MatchingChild(wmi_step[1].pid)
    /\ wmi_step[1].pid \notin wmi_pids

(***************************************************************************)
(* Properties of pid reuse and of the order of the two modes.              *)
(***************************************************************************)
\* C26: a stale entry blocks no new process. Every live matching child of the host that
\* the watcher has not elevated is absent from the tracking set of each running loop,
\* so the loop attempts it at its next sighting.
C26_StaleEntryNoBlock ==
    \A p \in Pids :
        (MatchingChild(p) /\ p \notin elevated_now) =>
            /\ poll_pc = "loop" => p \notin poll_pids
            /\ wmi_pc = "loop" => p \notin wmi_pids

\* C27: the polling thread is started only by a call of start_webview_optimizer whose
\* start_wmi_process_watcher has returned false, after the WMI thread was spawned; when
\* start_wmi_process_watcher has returned true no polling thread exists, then or later.
C27_EventDrivenFirst ==
    /\ poll_threads > 0 => (wmi_threads > 0 /\ wmi_returned = <<FALSE>>)
    /\ poll_pc # "none" => poll_threads > 0
    /\ wmi_returned = <<TRUE>> => (poll_threads = 0 /\ poll_pc = "none")

\* C27: the event-driven attempt reported success, its loop has elevated a process and
\* no polling thread was started
C27_Witness ==
    /\ wmi_returned = <<TRUE>>
    /\ wmi_pc = "loop"
    /\ wmi_pids # {}
    /\ poll_threads = 0

\* C28: an iteration of the event loop that receives an error item leaves the loop
\* running and changes neither the tracking set, nor PROCESSES_ELEVATED, nor
\* WMI_WATCHER_ACTIVE, nor the events still to come.
C28_ErrorItemSkipped ==
    [][\A i \in 1..Len(wmi_step') :
          wmi_step'[i].kind = "error" =>
              /\ wmi_pc = "loop"
              /\ wmi_pc' = "loop"
              /\ UNCHANGED <<wmi_pids, PROCESSES_ELEVATED, WMI_WATCHER_ACTIVE, events,
                             elevations>>
      ]_vars

\* C28: an error item was received while the loop tracked a pid and an event was
\* waiting
C28_Witness ==
    /\ wmi_step = <<[kind |-> "error"]>>
    /\ wmi_pc = "loop"
    /\ WMI_WATCHER_ACTIVE
    /\ wmi_pids # {}
    /\ events # <<>>

C30_ScanVisitsOnce ==
    /\ \A i \in DOMAIN s_visited : s_visited[i] = i
    /\ Len(s_visited) <= Len(s_snapshot)
    /\ (s_pc = "loop" => s_cursor = Len(s_visited) + 1)
    /\ (s_pc = "done" => Len(s_visited) = Len(s_snapshot))

\* a scan of three entries has ended after the two ancestry checks of one entry, a
\* descendant elevated
C30_Witness ==
    /\ s_pc = "done"
    /\ Len(s_snapshot) = 3
    /\ s_visited = <<1, 2, 3>>
    /\ s_checks = 2
    /\ s_new_pids # {}

(***************************************************************************)
(* Properties of the failures of CreateToolhelp32Snapshot                  *)
(***************************************************************************)
\* C31: what a scan of the polling loop returns when its snapshot cannot be created
\* differs from whatever it returns when the snapshot is created, and what the ancestry
\* check returns when its snapshot cannot be created differs from what it returns for a
\* process that is not a descendant.
C31_UnavailableDistinct ==
    poll_pc = "loop" =>
        \A inner_ok \in SUBSET Candidates, outcome \in [Pids -> Access] :
            /\ elevate_webview2_processes(poll_pids, FALSE, CreateToolhelp32Snapshot,
                                          inner_ok, outcome)
                   # elevate_webview2_processes(poll_pids, TRUE, CreateToolhelp32Snapshot,
                                                inner_ok, outcome)
            /\ \A p \in Pids :
                   is_descendant_of(FALSE, CreateToolhelp32Snapshot, p, our_pid)
                       # is_descendant_of(TRUE, CreateToolhelp32Snapshot, p, our_pid)

(***************************************************************************)
(* Properties of the handles                                               *)
(***************************************************************************)
\* the operations on handle h among calls
OpsOn(calls, h) == SelectSeq(calls, LAMBDA c : c.h = h)

\* C32: in the handle operations of any call of is_descendant_of, is_descendant_of_pid,
\* elevate_webview2_processes or elevate_single_process, each handle is opened once and
\* then closed once: when the function returns no handle is open, and none was closed
\* twice or before it was opened.
C32_HandlesClosedOnce ==
    \A i \in DOMAIN handle_calls :
        LET ops == OpsOn(handle_calls, handle_calls[i].h)
        IN  /\ Len(ops) = 2
            /\ ops[1].op = "open"
            /\ ops[2].op = "close"

\* a scan has opened and closed its snapshot, the two private snapshots of the ancestry
\* checks of one entry and the handle of the process it elevated
C32_Witness ==
    /\ Len(handle_calls) = 8
    /\ handle_calls[1] = Opened(<<"snapshot">>)
    /\ handle_calls[8] = Closed(<<"snapshot">>)
    /\ \E p \in Pids : handle_calls[6] = Opened(<<"process", p>>)

(***************************************************************************)
(* Properties of the buffer of get_usage                                   *)
(***************************************************************************)
\* C33: in every get_usage that reached the size query: after a status of 0 or
\* PDH_MORE_DATA with a non-zero size and a non-zero item count, the buffer holds at
\* least the reported bytes and the reported items and the array is read exactly once
\* more; after any other status, a zero size or a zero item count, the array is not read
\* and the usage is 0; no index read lies beyond the allocated buffer.
C33_BufferRetry ==
    \A k \in DOMAIN gpu_sample :
        LET b == gpu_sample[k]
            refused == \/ b.base.size_status = "error"
                       \/ b.base.buffer_size = 0
                       \/ b.base.item_count = 0
        IN  /\ refused => (b.array_reads = 0 /\ b.usage = 0)
            /\ ~refused => /\ b.array_reads = 1
                           /\ b.allocated * ItemSize >= b.base.buffer_size
                           /\ b.allocated >= b.base.item_count
            /\ \A i \in b.indices : i < b.allocated

\* after PDH_MORE_DATA a buffer of one item was allocated, the second call reported two
\* items, and the loop read only the first
C33_Witness ==
    /\ gpu_sample # <<>>
    /\ gpu_sample[1].base.size_status = "more_data"
    /\ gpu_sample[1].allocated = 1
    /\ gpu_sample[1].base.item_count_read = 2
    /\ gpu_sample[1].indices = {0}
    /\ gpu_sample[1].usage = 875
    /\ gpu_stats # <<>>
    /\ gpu_stats[1].usage_percent = 875

(***************************************************************************)
(* Properties of the GPU monitor after a failed initialization             *)
(***************************************************************************)
\* C34: once the monitor exists with is_initialized false, no step changes it or runs
\* initialize() again, and every GpuStats returned from then on has available = false,
\* usage_percent = 0 and the error recorded by that initialization.
C34_FailedInitPermanent ==
    [][(GPU_MONITOR # None /\ ~GPU_MONITOR[1].is_initialized) =>
           /\ GPU_MONITOR' = GPU_MONITOR
           /\ gpu_init' = gpu_init
           /\ \A k \in DOMAIN gpu_stats' :
                  /\ ~gpu_stats'[k].available
                  /\ gpu_stats'[k].usage_percent = 0
                  /\ gpu_stats'[k].error = GPU_MONITOR[1].last_error
                  /\ gpu_stats'[k].error # None
      ]_vars

\* the second get_gpu_stats after a failed initialization has returned
C34_Witness ==
    /\ GPU_MONITOR # None
    /\ ~GPU_MONITOR[1].is_initialized
    /\ Len(gpu_init) = 1
    /\ gpu_calls = 2
    /\ \A c \in GpuCallers : gpu_pc[c] = "idle"
    /\ gpu_stats # <<>>
    /\ ~gpu_stats[1].available

(***************************************************************************)
(* Properties of every GpuStats returned                                   *)
(***************************************************************************)
\* C35: every GpuStats returned by get_gpu_stats has usage_percent between 0 and 100
\* (here in tenths of a percent); with available = true its error is absent; with
\* available = false its usage_percent is 0 and its error is present, the result of a
\* failed lock() included.
C35_StatsWellFormed ==
    \A k \in DOMAIN gpu_stats :
        LET st == gpu_stats[k]
        IN  /\ 0 <= st.usage_percent /\ st.usage_percent <= 1000
            /\ st.available => st.error = None
            /\ ~st.available => (st.usage_percent = 0 /\ st.error # None)

\* lock() has failed on a monitor that was initialized: the stats of the Err arm
C35_Witness ==
    /\ GPU_MONITOR # None
    /\ GPU_MONITOR[1].is_initialized
    /\ gpu_stats = <<lock_failed_stats>>

(***************************************************************************)
(* Properties of the updater commands                                      *)
(***************************************************************************)
\* a step in which caller c begins install_update
InstallBegins(c) ==
    /\ upd_pc[c] = "idle"
    /\ \/ upd_pc'[c] = "downloading"
       \/ /\ upd_returned' # <<>>
          /\ upd_returned'[1].fn = "install_update"
          /\ upd_returned'[1].caller = c

\* C36: an install_update that begins while the slot holds no update, none having been
\* stored or the stored one having been taken, returns the error "No pending update to
\* install" and starts no download.
C36_NoPendingError ==
    [][\A c \in UpdCallers :
           (InstallBegins(c) /\ pending = None) =>
               /\ upd_returned'
                      = <<[fn |-> "install_update", caller |-> c,
                           result |-> "No pending update to install"]>>
               /\ downloads' = downloads
               /\ upd_pc'[c] = "idle"
               /\ pending' = None
      ]_vars

\* a first install_update took the stored update, and a second one has returned the error
C36_Witness ==
    /\ Len(downloads) = 1
    /\ pending = None
    /\ upd_returned # <<>>
    /\ upd_returned[1].result = "No pending update to install"

C38_CheckWritesOnlyOnUpdate ==
    [][/\ (upd_returned' # <<>> /\ upd_returned'[1].fn = "check_for_updates") =>
              IF upd_returned'[1].result = "available"
              THEN pending' = Some([id |-> upd_checks']) /\ upd_checks' = upd_checks + 1
              ELSE pending' = pending /\ upd_checks' = upd_checks
       /\ ~(upd_returned' # <<>> /\ upd_returned'[1].fn = "check_for_updates") =>
              pending' \in {pending, None}
      ]_vars

\* a check that failed has left in the slot the update stored by an earlier check
C38_Witness ==
    /\ pending = Some([id |-> 1])
    /\ upd_returned # <<>>
    /\ upd_returned[1].fn = "check_for_updates"
    /\ upd_returned[1].result = "Err(check)"

(***************************************************************************)
(* Properties of the window commands                                       *)
(***************************************************************************)
\* the configuration of the window in each mode
ConfigOf(mode) ==
    CASE mode = "Windowed" ->
            [fullscreen |-> FALSE, decorations |-> TRUE, maximized |-> FALSE]
      [] mode = "Fullscreen" ->
            [fullscreen |-> TRUE, decorations |-> TRUE, maximized |-> FALSE]
      [] mode = "BorderlessWindowed" ->
            [fullscreen |-> FALSE, decorations |-> FALSE, maximized |-> TRUE]

\* C39: after any sequence of set_window_mode and toggle_fullscreen calls, calls that
\* returned an error included, the window has the configuration of the stored mode.
C39_StoredMatchesWindow ==
    window = ConfigOf(from_u8(CURRENT_WINDOW_MODE))

\* C40: a toggle_fullscreen that returns Ok stores Windowed and returns false when the
\* stored mode was Fullscreen, and stores Fullscreen and returns true when it was
\* Windowed or BorderlessWindowed: the boolean is true exactly when the mode stored
\* afterwards is Fullscreen, and Fullscreen is never left for BorderlessWindowed.
C40_ToggleResult ==
    [][\A k \in DOMAIN win_returned' :
           (win_returned'[k].fn = "toggle_fullscreen" /\ win_returned'[k].result = "Ok") =>
               LET before == from_u8(CURRENT_WINDOW_MODE)
                   after == from_u8(CURRENT_WINDOW_MODE')
                   value == win_returned'[k].value
               IN  /\ before = win_returned'[k].before
                   /\ before = "Fullscreen" => (after = "Windowed" /\ value = FALSE)
                   /\ before # "Fullscreen" => (after = "Fullscreen" /\ value = TRUE)
                   /\ value = (after = "Fullscreen")
      ]_vars

\* a toggle has left fullscreen and returned false: the stored mode is Windowed and the
\* window is decorated and not maximized
C40_Witness ==
    /\ win_returned = <<[fn |-> "toggle_fullscreen", before |-> "Fullscreen",
                         result |-> "Ok", value |-> FALSE]>>
    /\ CURRENT_WINDOW_MODE = 0
    /\ window = [fullscreen |-> FALSE, decorations |-> TRUE, maximized |-> FALSE]

====
